---- MODULE Spec2Model ----
(***************************************************************************)
(* Model of the in-memory storage engine of tx_storage                     *)
(* (src/src/inmem/mod.rs): a vector of containers, each a map guarded by   *)
(* its own reader-writer lock, a reader-writer lock for the container      *)
(* list, iterators that keep a container's read lock, and the threads of   *)
(* the callers (src/src/lib.rs).  Every interface call is split at the     *)
(* points where it touches shared state: indexing the container vector,    *)
(* acquiring a lock, looking a key up, applying the change.                *)
(*                                                                         *)
(* Keys and values are byte vectors (sequences of bytes).  Thread 0 is the *)
(* main thread of the tests; threads 1..NumWorkers are the spawned ones.   *)
(* A thread owns at most one iterator at a time.                           *)
(*                                                                         *)
(* std::sync::RwLock leaves the admission policy open: a read() issued     *)
(* while a writer waits may or may not be admitted.  The safety model      *)
(* admits it (AcquireRead); the fair specification only promises the       *)
(* admission when no writer waits.                                         *)
(***************************************************************************)
EXTENDS Integers, Sequences, FiniteSets, TLC

\* ---- bounds ----
NumWorkers == 2
NumContainers == 2
MaxKey == 2
MaxVal == 2
MaxOps == 2
MaxScans == 2
KeysPerThread == 3

Main == 0
Workers == 1..NumWorkers
Threads == 0..NumWorkers

Keys == { <<b>> : b \in 1..MaxKey }
Vals == { <<b>> : b \in 1..MaxVal }
CTypes == {"Hash", "BTree"}

VARIABLES
    db_created,   \* InMemStorage.db_created
    containers,   \* InMemStorage.containers: sequence of [ctype, map]; id i is element i+1
    lockW,        \* per container: set of threads holding the write guard ({} or {t})
    lockR,        \* per container: number of read guards alive
    listW,        \* container_lock: set of threads holding the write guard
    listR,        \* container_lock: number of read guards alive
    iters,        \* per owner thread: << >> or <<iterator record>>
    spawned,      \* the main thread has spawned the workers
    th,           \* per thread: [pc: position inside the current call, op: the call,
                  \*   res: result of the last completed call, found: outcome of
                  \*   entry()/get_mut(), pos: the pair insert_values works on,
                  \*   n: iterations of the thread's loop started (test threads)]
    left,         \* calls the workers may still issue: [ops: point operations and
                  \*   delete_container, scans: scan_range]
    vec_len,      \* containers.len() where the list is given by its length alone
                  \*   (the ids of long lists); 0 where containers carries the list
    inner         \* inmem/txn_storage.rs, InMemStorage.inner: [dbs: the map of
                  \*   InMemStorageInner, database id to container id to storage;
                  \*   poisoned: a thread has panicked under the Mutex]

vars == <<db_created, containers, lockW, lockR, listW, listR, iters, spawned, th, left, vec_len, inner>>

\* ---- byte vectors and maps ----

\* Ord for Vec<u8>: lexicographic comparison of the bytes
RECURSIVE LexLess(_, _)
LexLess(a, b) ==
    IF a = << >> THEN b # << >>
    ELSE IF b = << >> THEN FALSE
    ELSE IF Head(a) # Head(b) THEN Head(a) < Head(b)
    ELSE LexLess(Tail(a), Tail(b))

EmptyMap == [x \in {} |-> << >>]

\* an insert that forgets the other entries
MapPutAlone(m, k, v) == [x \in {k} |-> v]

MapPut(m, k, v) == [x \in (DOMAIN m) \cup {k} |-> IF x = k THEN v ELSE m[x]]

\* a removal that empties the map
MapDelAll(m, k) == [x \in {} |-> << >>]

MapDel(m, k) == [x \in (DOMAIN m) \ {k} |-> m[x]]

\* Storage::new
NewStorage(ty) == [ctype |-> ty, map |-> EmptyMap]

\* inmem/txn_storage.rs, InMemStorage::new: no database, the Mutex not poisoned
NewInner == [dbs |-> EmptyMap, poisoned |-> FALSE]

\* ---- results ----
\* of: the call that returned; tag: Ok or the Status; val: the value of get_value;
\* id: the id of open_db / create_container; pair: the pair of iter_next;
\* ids: the set of list_containers
Result(tag) ==
    [of |-> "none", tag |-> tag, val |-> << >>, id |-> 0, pair |-> << >>, ids |-> {}]
Ok == Result("Ok")
OkVal(v) == [Ok EXCEPT !.val = v]
OkId(i) == [Ok EXCEPT !.id = i]
OkSome(k, v) == [Result("Some") EXCEPT !.pair = <<k, v>>]
OkNone == Result("None")
OkIds(s) == [Ok EXCEPT !.ids = s]
NoRes == Result("-")

\* ---- calls ----
Call(kind, c, k, v, kvs) ==
    [kind |-> kind, db |-> 0, c |-> c, k |-> k, v |-> v, kvs |-> kvs, ty |-> "Hash", it |-> 0]
NoCall == Call("none", 0, << >>, << >>, << >>)

WriteKinds == {"insert_value", "insert_values", "update_value", "delete_value"}
ReadKinds == {"get_value", "check_value"}

IdleThread == [pc |-> "idle", op |-> NoCall, res |-> NoRes, found |-> FALSE, pos |-> 1, n |-> 0]

\* the key and the value the write section of thread t works on
CurK(t) == IF th[t].op.kind = "insert_values" THEN th[t].op.kvs[th[t].pos][1] ELSE th[t].op.k
CurV(t) == IF th[t].op.kind = "insert_values" THEN th[t].op.kvs[th[t].pos][2] ELSE th[t].op.v

\* containers[*c_id as usize]
Slot(c) == containers[c + 1]
ValidId(c) == c + 1 \in DOMAIN containers

SetMap(c, m) == [containers EXCEPT ![c + 1].map = m]

Init ==
    /\ db_created = FALSE
    /\ containers = << >>
    /\ lockW = << >>
    /\ lockR = << >>
    /\ listW = {}
    /\ listR = 0
    /\ iters = [t \in Threads |-> << >>]
    /\ spawned = FALSE
    /\ th = [t \in Threads |-> IdleThread]
    /\ left = [ops |-> MaxOps, scans |-> MaxScans]
    /\ vec_len = 0
    /\ inner = NewInner

\* a call starts at position p
Enter(t, o, p) ==
    /\ th[t].pc = "idle"
    /\ th' = [th EXCEPT ![t] = [IdleThread EXCEPT !.pc = p, !.op = o, !.n = th[t].n]]

\* a call goes on to position p
Goto(t, p) == th' = [th EXCEPT ![t].pc = p]

\* a call returns: the thread is idle again and keeps the result
Return(t, r) ==
    th' = [th EXCEPT ![t] = [IdleThread EXCEPT !.res = [r EXCEPT !.of = th[t].op.kind],
                                               !.n = th[t].n]]

\* a call that starts and returns in one step
Whole(t, o, r) ==
    /\ th[t].pc = "idle"
    /\ th' = [th EXCEPT ![t] = [IdleThread EXCEPT !.res = [r EXCEPT !.of = o.kind],
                                                  !.n = th[t].n]]

\* ---- database and container list ----

\* an open_db that does not look at the flag
open_db_again(t) ==
    /\ db_created' = TRUE
    /\ Whole(t, Call("open_db", 0, << >>, << >>, << >>), OkId(0))
    /\ UNCHANGED <<containers, lockW, lockR, listW, listR, iters, spawned, left, vec_len, inner>>

\* open_db: the handler takes no lock
open_db(t) ==
    /\ IF db_created
         THEN /\ Whole(t, Call("open_db", 0, << >>, << >>, << >>), Result("DBExists"))
              /\ UNCHANGED db_created
         ELSE /\ db_created' = TRUE
              /\ Whole(t, Call("open_db", 0, << >>, << >>, << >>), OkId(0))
    /\ UNCHANGED <<containers, lockW, lockR, listW, listR, iters, spawned, left, vec_len, inner>>

\* close_db: does nothing
close_db(t, db) ==
    /\ Whole(t, [Call("close_db", 0, << >>, << >>, << >>) EXCEPT !.db = db], Ok)
    /\ UNCHANGED <<db_created, containers, lockW, lockR, listW, listR, iters, spawned, left, vec_len, inner>>

\* delete_db, the check of the id
delete_db(t, db) ==
    /\ LET o == [Call("delete_db", 0, << >>, << >>, << >>) EXCEPT !.db = db]
       IN IF db # 0 THEN Whole(t, o, Result("DBNotFound")) ELSE Enter(t, o, "ddb_clear")
    /\ UNCHANGED <<db_created, containers, lockW, lockR, listW, listR, iters, spawned, left, vec_len, inner>>

\* a delete_db that clears the containers and leaves the database open
delete_db_clear_only(t) ==
    /\ th[t].pc = "ddb_clear"
    /\ containers' = << >>
    /\ lockW' = << >>
    /\ lockR' = << >>
    /\ Return(t, Ok)
    /\ UNCHANGED <<db_created, listW, listR, iters, spawned, left, vec_len, inner>>

\* delete_db: *guard = false and containers.clear(), which drops every
\* storage with its lock; the handler takes no lock
delete_db_clear(t) ==
    /\ th[t].pc = "ddb_clear"
    /\ db_created' = FALSE
    /\ containers' = << >>
    /\ lockW' = << >>
    /\ lockR' = << >>
    /\ Return(t, Ok)
    /\ UNCHANGED <<listW, listR, iters, spawned, left, vec_len, inner>>

\* container_lock.write() is granted when nobody holds the list lock
CanWriteList == listW = {} /\ listR = 0

\* create_container, up to the request of the list lock
create_container(t, db, ty) ==
    /\ LET o == [Call("create_container", 0, << >>, << >>, << >>) EXCEPT !.db = db, !.ty = ty]
       IN IF db # 0 THEN Whole(t, o, Result("DBNotFound")) ELSE Enter(t, o, "cc_lock")
    /\ UNCHANGED <<db_created, containers, lockW, lockR, listW, listR, iters, spawned, left, vec_len, inner>>

\* a create_container that pushes without the list lock
create_container_lock_skipped(t) ==
    /\ th[t].pc = "cc_lock"
    /\ Goto(t, "cc_push")
    /\ UNCHANGED <<db_created, containers, lockW, lockR, listW, listR, iters, spawned, left, vec_len, inner>>

\* create_container: container_lock.write()
create_container_lock(t) ==
    /\ th[t].pc = "cc_lock"
    /\ CanWriteList
    /\ listW' = {t}
    /\ Goto(t, "cc_push")
    /\ UNCHANGED <<db_created, containers, lockW, lockR, listR, iters, spawned, left, vec_len, inner>>

\* as ContainerId, ContainerId = u16
AsContainerId(n) == n % 65536

\* (containers.len() - 1) as ContainerId, after the push
CreatedId(len) == AsContainerId(len - 1)

\* (0..containers.len() as ContainerId).collect()
ListedIds(len) == 0..(AsContainerId(len) - 1)

\* create_container: push the new storage, return its index, drop the guard
create_container_push(t) ==
    /\ th[t].pc = "cc_push"
    /\ containers' = Append(containers, NewStorage(th[t].op.ty))
    /\ lockW' = Append(lockW, {})
    /\ lockR' = Append(lockR, 0)
    /\ listW' = listW \ {t}
    /\ Return(t, OkId(CreatedId(Len(containers'))))
    /\ UNCHANGED <<db_created, listR, iters, spawned, left, vec_len, inner>>

\* thread::spawn of the workers, after the setup of the tests
Spawn ==
    /\ ~spawned
    /\ th[Main].pc = "idle"
    /\ db_created
    /\ Len(containers) = NumContainers
    /\ spawned' = TRUE
    /\ UNCHANGED <<db_created, containers, lockW, lockR, listW, listR, iters, th, left, vec_len, inner>>

\* ---- write sections: insert, update, remove ----

\* a write lock that does not wait for the readers
CanWriteIgnoringReaders(c) == lockW[c + 1] = {}

\* lock.write() is granted when nobody holds the container's lock
CanWrite(c) == lockW[c + 1] = {} /\ lockR[c + 1] = 0

\* a read lock that is granted next to a writer
CanReadAlways(c) == c + 1 \in DOMAIN lockW

\* lock.read() is granted when no writer holds the container's lock
CanRead(c) == lockW[c + 1] = {}

\* another thread holds the list lock of create_container and is about to
\* push: containers.push(storage) writes the vector's length and may move its
\* buffer
PushPending(t) == \E u \in Threads \ {t} : th[u].pc = "cc_push"

\* the capacity of a Vec<Box<Storage>> grown by push from Vec::new():
\* 0, then 4, then doubled
RECURSIVE GrownTo(_, _)
GrownTo(cap, len) == IF cap >= len THEN cap ELSE GrownTo(2 * cap, len)

VecCapacity(len) == IF len = 0 THEN 0 ELSE GrownTo(4, len)

\* the pending push moves the vector's buffer (and frees the old one)
PushMoves == Len(containers) = VecCapacity(Len(containers))

\* &*self.containers.get() and containers[*c_id as usize], with no guard:
\* where the call goes on.  Out of bounds the index panics.  A read that
\* overlaps a push is a data race: it finds the slot, or, when the push moves
\* the buffer, may go through the freed buffer and the thread crashes.  The
\* index of the slot that is being pushed races with the push on the
\* vector's length and on the slot: the bounds check fails with the old
\* length ("panicked"), or it passes with the new length and the call gets
\* the new container ("raced") or a slot that is not written yet ("crashed").
IndexPc(t, c, p) ==
    IF ~ValidId(c)
    THEN IF PushPending(t) /\ c = Len(containers)
         THEN {"panicked", "raced", "crashed"}
         ELSE {"panicked"}
    ELSE IF PushPending(t) /\ PushMoves THEN {p, "crashed"}
    ELSE {p}

\* the call that got the slot of the pending push goes on in the new
\* container: storage.insert / get / iter, once the slot is there
index_raced(t) ==
    /\ th[t].pc = "raced"
    /\ ValidId(th[t].op.c)
    /\ Goto(t, IF th[t].op.kind \in WriteKinds THEN "w_lock"
               ELSE IF th[t].op.kind \in ReadKinds THEN "r_lock"
               ELSE "s_lock")
    /\ UNCHANGED <<db_created, containers, lockW, lockR, listW, listR, iters, spawned, left, vec_len, inner>>

\* insert_value / insert_values / update_value / delete_value:
\* containers[*c_id as usize]
point_write(t, o) ==
    /\ o.kind \in WriteKinds
    /\ left.ops > 0
    /\ \E q \in IndexPc(t, o.c, "w_lock") : Enter(t, o, q)
    /\ left' = [left EXCEPT !.ops = @ - 1]
    /\ UNCHANGED <<db_created, containers, lockW, lockR, listW, listR, iters, spawned, vec_len, inner>>

\* a write section that is entered without waiting for the lock
write_lock_unguarded(t) ==
    /\ th[t].pc = "w_lock"
    /\ lockW' = [lockW EXCEPT ![th[t].op.c + 1] = @ \cup {t}]
    /\ th' = [th EXCEPT ![t].pc = "w_apply",
                        ![t].found = CurK(t) \in DOMAIN Slot(th[t].op.c).map]
    /\ UNCHANGED <<db_created, containers, lockR, listW, listR, iters, spawned, left, vec_len, inner>>

\* Storage::insert / update / remove: lock.write(), then h.entry(key) /
\* h.get_mut(key): is the key there
write_lock(t) ==
    /\ th[t].pc = "w_lock"
    /\ CanWrite(th[t].op.c)
    /\ lockW' = [lockW EXCEPT ![th[t].op.c + 1] = {t}]
    /\ th' = [th EXCEPT ![t].pc = "w_apply",
                        ![t].found = CurK(t) \in DOMAIN Slot(th[t].op.c).map]
    /\ UNCHANGED <<db_created, containers, lockR, listW, listR, iters, spawned, left, vec_len, inner>>

\* an insert that overwrites an occupied entry
StorageInsertOverwrite(m, k, v, occupied) ==
    IF occupied THEN [map |-> MapPut(m, k, v), res |-> Result("KeyExists")]
    ELSE [map |-> MapPut(m, k, v), res |-> Ok]

\* Storage::insert, the match on the entry
StorageInsert(m, k, v, occupied) ==
    IF occupied THEN [map |-> m, res |-> Result("KeyExists")]
    ELSE [map |-> MapPut(m, k, v), res |-> Ok]

\* an update that stores the value also when the key is absent
StorageUpdateUpsert(m, k, v, some) ==
    IF some THEN [map |-> MapPut(m, k, v), res |-> Ok]
    ELSE [map |-> MapPut(m, k, v), res |-> Result("KeyNotFound")]

\* Storage::update, the match on get_mut
StorageUpdate(m, k, v, some) ==
    IF some THEN [map |-> MapPut(m, k, v), res |-> Ok]
    ELSE [map |-> m, res |-> Result("KeyNotFound")]

\* Storage::remove, the match on h.remove(key)
StorageRemove(m, k, some) ==
    IF some THEN [map |-> MapDel(m, k), res |-> Ok]
    ELSE [map |-> m, res |-> Result("KeyNotFound")]

\* what the write section of thread t does to the map, and its result
WriteOutcome(t) ==
    LET m == Slot(th[t].op.c).map IN
    CASE th[t].op.kind \in {"insert_value", "insert_values"} ->
             StorageInsert(m, CurK(t), CurV(t), th[t].found)
      [] th[t].op.kind = "update_value" -> StorageUpdate(m, CurK(t), CurV(t), th[t].found)
      [] th[t].op.kind = "delete_value" -> StorageRemove(m, CurK(t), th[t].found)

\* an insert_values that goes on with the next pair after a failure
write_apply_skip(t) ==
    /\ th[t].pc = "w_apply"
    /\ LET out == WriteOutcome(t) IN
         /\ containers' = SetMap(th[t].op.c, out.map)
         /\ lockW' = [lockW EXCEPT ![th[t].op.c + 1] = @ \ {t}]
         /\ IF th[t].op.kind = "insert_values" /\ th[t].pos < Len(th[t].op.kvs)
              THEN th' = [th EXCEPT ![t].pc = "w_lock", ![t].pos = @ + 1, ![t].found = FALSE]
              ELSE Return(t, out.res)
    /\ UNCHANGED <<db_created, lockR, listW, listR, iters, spawned, left, vec_len, inner>>

\* the match arm of insert / update / remove, the drop of the write guard, and
\* the return; insert_values goes on with its next pair unless this one failed
write_apply(t) ==
    /\ th[t].pc = "w_apply"
    /\ LET out == WriteOutcome(t) IN
         /\ containers' = SetMap(th[t].op.c, out.map)
         /\ lockW' = [lockW EXCEPT ![th[t].op.c + 1] = @ \ {t}]
         /\ IF th[t].op.kind = "insert_values" /\ out.res = Ok /\ th[t].pos < Len(th[t].op.kvs)
              THEN th' = [th EXCEPT ![t].pc = "w_lock", ![t].pos = @ + 1, ![t].found = FALSE]
              ELSE Return(t, out.res)
    /\ UNCHANGED <<db_created, lockR, listW, listR, iters, spawned, left, vec_len, inner>>

\* ---- read sections: get ----

\* get_value / check_value: containers[*c_id as usize]
point_read(t, o) ==
    /\ o.kind \in ReadKinds
    /\ left.ops > 0
    /\ \E q \in IndexPc(t, o.c, "r_lock") : Enter(t, o, q)
    /\ left' = [left EXCEPT !.ops = @ - 1]
    /\ UNCHANGED <<db_created, containers, lockW, lockR, listW, listR, iters, spawned, vec_len, inner>>

\* a get that also waits for the list lock
read_lock_listed(t) ==
    /\ th[t].pc = "r_lock"
    /\ CanRead(th[t].op.c) /\ listW = {}
    /\ lockR' = [lockR EXCEPT ![th[t].op.c + 1] = @ + 1]
    /\ Goto(t, "r_get")
    /\ UNCHANGED <<db_created, containers, lockW, listW, listR, iters, spawned, left, vec_len, inner>>

\* Storage::get: lock.read()
read_lock(t) ==
    /\ th[t].pc = "r_lock"
    /\ CanRead(th[t].op.c)
    /\ lockR' = [lockR EXCEPT ![th[t].op.c + 1] = @ + 1]
    /\ Goto(t, "r_get")
    /\ UNCHANGED <<db_created, containers, lockW, listW, listR, iters, spawned, left, vec_len, inner>>

\* Storage::get, h.get(key) and the clone of the value
StorageGet(m, k) ==
    IF k \in DOMAIN m THEN OkVal(m[k]) ELSE Result("KeyNotFound")

\* a check_value that passes the error of Storage::get on
CheckValueStrict(r) == IF r.tag = "Ok" THEN Result("true") ELSE r

\* check_value: Ok(_) => Ok(true), Err(_) => Ok(false)
CheckValue(r) == IF r.tag = "Ok" THEN Result("true") ELSE Result("false")

\* Storage::get under the read guard, the drop of the guard, and the return
read_get(t) ==
    /\ th[t].pc = "r_get"
    /\ lockR' = [lockR EXCEPT ![th[t].op.c + 1] = @ - 1]
    /\ LET r == StorageGet(Slot(th[t].op.c).map, th[t].op.k) IN
         Return(t, IF th[t].op.kind = "check_value" THEN CheckValue(r) ELSE r)
    /\ UNCHANGED <<db_created, containers, lockW, listW, listR, iters, spawned, left, vec_len, inner>>

\* ---- iterators ----

\* the iterator thread i owns
Iter(i) == iters[i][1]
Alive(i) == iters[i] # << >>

\* the keys of a sequence of pairs
RECURSIVE KeysOf(_)
KeysOf(ps) == IF ps = << >> THEN {} ELSE {Head(ps)[1]} \cup KeysOf(Tail(ps))

\* scan_range: containers[*c_id as usize]
scan_range(t, c) ==
    /\ left.scans > 0
    /\ ~Alive(t)
    /\ \E q \in IndexPc(t, c, "s_lock") :
           Enter(t, Call("scan_range", c, << >>, << >>, << >>), q)
    /\ left' = [left EXCEPT !.scans = @ - 1]
    /\ UNCHANGED <<db_created, containers, lockW, lockR, listW, listR, iters, spawned, vec_len, inner>>

\* InMemIterator::hash / InMemIterator::btree: the read guard and the cursor
\* (out: the pairs next() has returned; done: next() has returned None;
\* snap: the map when the iterator was made; mtx: holder of the cursor's Mutex)
NewIterator(c, m) == [c |-> c, out |-> << >>, done |-> FALSE, snap |-> m, mtx |-> {}]

\* an iterator that keeps no read guard
scan_lock_unguarded(t) ==
    /\ th[t].pc = "s_lock"
    /\ iters' = [iters EXCEPT ![t] = <<NewIterator(th[t].op.c, Slot(th[t].op.c).map)>>]
    /\ Return(t, Ok)
    /\ UNCHANGED <<db_created, containers, lockW, lockR, listW, listR, spawned, left, vec_len, inner>>

\* Storage::iter: lock.read(), kept in the returned iterator
scan_lock(t) ==
    /\ th[t].pc = "s_lock"
    /\ CanRead(th[t].op.c)
    /\ lockR' = [lockR EXCEPT ![th[t].op.c + 1] = @ + 1]
    /\ iters' = [iters EXCEPT ![t] = <<NewIterator(th[t].op.c, Slot(th[t].op.c).map)>>]
    /\ Return(t, Ok)
    /\ UNCHANGED <<db_created, containers, lockW, listW, listR, spawned, left, vec_len, inner>>

\* iter_next on the iterator of thread i
iter_next(t, i) ==
    /\ Alive(i)
    /\ Enter(t, [Call("iter_next", Iter(i).c, << >>, << >>, << >>) EXCEPT !.it = i], "n_lock")
    /\ UNCHANGED left
    /\ UNCHANGED <<db_created, containers, lockW, lockR, listW, listR, iters, spawned, vec_len, inner>>

\* a next that does not wait for the cursor's mutex
next_lock_unguarded(t) ==
    /\ th[t].pc = "n_lock"
    /\ iters' = [iters EXCEPT ![th[t].op.it][1].mtx = {t}]
    /\ Goto(t, "n_next")
    /\ UNCHANGED <<db_created, containers, lockW, lockR, listW, listR, spawned, left, vec_len, inner>>

\* InMemIterator::next: iter.lock()
next_lock(t) ==
    /\ th[t].pc = "n_lock"
    /\ Iter(th[t].op.it).mtx = {}
    /\ iters' = [iters EXCEPT ![th[t].op.it][1].mtx = {t}]
    /\ Goto(t, "n_next")
    /\ UNCHANGED <<db_created, containers, lockW, lockR, listW, listR, spawned, left, vec_len, inner>>

\* a cursor that does not move on
AheadAgain(ty, m, seen) == DOMAIN m

\* the keys the cursor has not passed: btree_map::Iter walks the keys upwards,
\* hash_map::Iter walks them in an order of its own
Ahead(ty, m, seen) ==
    IF ty = "BTree"
      THEN {k \in DOMAIN m : \A s \in seen : LexLess(s, k)}
      ELSE (DOMAIN m) \ seen

\* a cursor that walks every map in an order of its own
NextKeysUnordered(ty, m, seen) == (DOMAIN m) \ seen

\* the keys iter.next() may yield now
NextKeys(ty, m, seen) ==
    LET a == Ahead(ty, m, seen) IN
    IF ty = "BTree"
      THEN {k \in a : \A j \in a : j = k \/ LexLess(k, j)}
      ELSE a

\* InMemIterator::next: iter.next(), the clone of the pair, the unlock
next_advance(t) ==
    /\ th[t].pc = "n_next"
    /\ LET i == th[t].op.it
           it == Iter(i)
           st == Slot(it.c)
           ks == NextKeys(st.ctype, st.map, KeysOf(it.out))
       IN IF ks = {}
            THEN /\ iters' = [iters EXCEPT ![i][1].mtx = {}, ![i][1].done = TRUE]
                 /\ Return(t, OkNone)
            ELSE \E k \in ks :
                 /\ iters' = [iters EXCEPT ![i][1].mtx = {},
                                           ![i][1].out = Append(@, <<k, st.map[k]>>)]
                 /\ Return(t, OkSome(k, st.map[k]))
    /\ UNCHANGED <<db_created, containers, lockW, lockR, listW, listR, spawned, left, vec_len, inner>>

\* a drop that leaves the read guard behind
drop_iterator_handle_leak(t) ==
    /\ Alive(t)
    /\ \A u \in Threads : th[u].pc \in {"n_lock", "n_next"} => th[u].op.it # t
    /\ Whole(t, Call("drop_iterator_handle", Iter(t).c, << >>, << >>, << >>), Ok)
    /\ iters' = [iters EXCEPT ![t] = << >>]
    /\ UNCHANGED <<db_created, containers, lockW, lockR, listW, listR, spawned, left, vec_len, inner>>

\* drop_iterator_handle: the iterator is moved in and dropped, which drops
\* its read guard
drop_iterator_handle(t) ==
    /\ Alive(t)
    /\ \A u \in Threads : th[u].pc \in {"n_lock", "n_next"} => th[u].op.it # t
    /\ Whole(t, Call("drop_iterator_handle", Iter(t).c, << >>, << >>, << >>), Ok)
    /\ lockR' = [lockR EXCEPT ![Iter(t).c + 1] = @ - 1]
    /\ iters' = [iters EXCEPT ![t] = << >>]
    /\ UNCHANGED left
    /\ UNCHANGED <<db_created, containers, lockW, listW, listR, spawned, vec_len, inner>>

\* ---- delete_container ----

\* delete_container, up to the request of the list lock
delete_container(t, db, c) ==
    /\ left.ops > 0
    /\ LET o == [Call("delete_container", c, << >>, << >>, << >>) EXCEPT !.db = db]
       IN IF db # 0 THEN Whole(t, o, Result("DBNotFound")) ELSE Enter(t, o, "dc_lock")
    /\ left' = [left EXCEPT !.ops = @ - 1]
    /\ UNCHANGED <<db_created, containers, lockW, lockR, listW, listR, iters, spawned, vec_len, inner>>

\* a delete_container that clears the container without the list lock
delete_container_lock_free(t) ==
    /\ th[t].pc = "dc_lock"
    /\ Goto(t, IF ValidId(th[t].op.c) THEN "cl_lock" ELSE "panicked")
    /\ UNCHANGED <<db_created, containers, lockW, lockR, listW, listR, iters, spawned, left, vec_len, inner>>

\* delete_container: container_lock.write(), then containers[*c_id as usize]
\* (a panic under the guard when there is no such slot)
delete_container_lock(t) ==
    /\ th[t].pc = "dc_lock"
    /\ CanWriteList
    /\ listW' = {t}
    /\ Goto(t, IF ValidId(th[t].op.c) THEN "cl_lock" ELSE "panicked")
    /\ UNCHANGED <<db_created, containers, lockW, lockR, listR, iters, spawned, left, vec_len, inner>>

\* a clear whose write lock does not wait for the caller's own iterator
clear_lock_reentrant(t) ==
    /\ th[t].pc = "cl_lock"
    /\ lockW[th[t].op.c + 1] = {}
    /\ \/ lockR[th[t].op.c + 1] = 0
       \/ lockR[th[t].op.c + 1] = 1 /\ Alive(t) /\ Iter(t).c = th[t].op.c
    /\ lockW' = [lockW EXCEPT ![th[t].op.c + 1] = {t}]
    /\ Goto(t, "cl_clear")
    /\ UNCHANGED <<db_created, containers, lockR, listW, listR, iters, spawned, left, vec_len, inner>>

\* Storage::clear: lock.write()
clear_lock(t) ==
    /\ th[t].pc = "cl_lock"
    /\ CanWrite(th[t].op.c)
    /\ lockW' = [lockW EXCEPT ![th[t].op.c + 1] = {t}]
    /\ Goto(t, "cl_clear")
    /\ UNCHANGED <<db_created, containers, lockR, listW, listR, iters, spawned, left, vec_len, inner>>

\* a delete_container that removes the last slot of the list
clear_apply_remove(t) ==
    /\ th[t].pc = "cl_clear"
    /\ containers' = SubSeq(containers, 1, Len(containers) - 1)
    /\ lockW' = SubSeq(lockW, 1, Len(lockW) - 1)
    /\ lockR' = SubSeq(lockR, 1, Len(lockR) - 1)
    /\ listW' = listW \ {t}
    /\ Return(t, Ok)
    /\ UNCHANGED <<db_created, listR, iters, spawned, left, vec_len, inner>>

\* Storage::clear: h.clear(), the drop of both guards, and the return
clear_apply(t) ==
    /\ th[t].pc = "cl_clear"
    /\ containers' = SetMap(th[t].op.c, EmptyMap)
    /\ lockW' = [lockW EXCEPT ![th[t].op.c + 1] = @ \ {t}]
    /\ listW' = listW \ {t}
    /\ Return(t, Ok)
    /\ UNCHANGED <<db_created, lockR, listR, iters, spawned, left, vec_len, inner>>

\* ---- list_containers ----

\* list_containers, up to the request of the list lock
list_containers(t, db) ==
    /\ LET o == [Call("list_containers", 0, << >>, << >>, << >>) EXCEPT !.db = db]
       IN IF db # 0 THEN Whole(t, o, Result("DBNotFound")) ELSE Enter(t, o, "lc_lock")
    /\ UNCHANGED <<db_created, containers, lockW, lockR, listW, listR, iters, spawned, left, vec_len, inner>>

\* list_containers: container_lock.read()
list_containers_lock(t) ==
    /\ th[t].pc = "lc_lock"
    /\ listW = {}
    /\ listR' = listR + 1
    /\ Goto(t, "lc_read")
    /\ UNCHANGED <<db_created, containers, lockW, lockR, listW, iters, spawned, left, vec_len, inner>>

\* a list that leaves out the containers that are empty
list_containers_read_nonempty(t) ==
    /\ th[t].pc = "lc_read"
    /\ listR' = listR - 1
    /\ Return(t, OkIds({i \in 0..(AsContainerId(Len(containers)) - 1) :
                            Slot(i).map # EmptyMap}))
    /\ UNCHANGED <<db_created, containers, lockW, lockR, listW, iters, spawned, left, vec_len, inner>>

\* list_containers: (0..containers.len() as ContainerId).collect(), the drop
\* of the guard, and the return
list_containers_read(t) ==
    /\ th[t].pc = "lc_read"
    /\ listR' = listR - 1
    /\ Return(t, OkIds(ListedIds(Len(containers))))
    /\ UNCHANGED <<db_created, containers, lockW, lockR, listW, iters, spawned, left, vec_len, inner>>

\* ---- transactions ----

\* a call that only returns r
NoOp(t, kind, db, r) ==
    /\ Whole(t, [Call(kind, 0, << >>, << >>, << >>) EXCEPT !.db = db], r)
    /\ UNCHANGED <<db_created, containers, lockW, lockR, listW, listR, iters, spawned, left, vec_len, inner>>

\* begin_txn: Ok(InMemDummyTxnHandle::new(*db_id)); the handle is its db_id
begin_txn(t, db) == NoOp(t, "begin_txn", db, OkId(db))

\* a commit that takes the writes of the transaction back
commit_txn_undo(t, h) ==
    /\ Whole(t, [Call("commit_txn", 0, << >>, << >>, << >>) EXCEPT !.db = h], Ok)
    /\ containers' = [i \in DOMAIN containers |-> [containers[i] EXCEPT !.map = EmptyMap]]
    /\ UNCHANGED <<db_created, lockW, lockR, listW, listR, iters, spawned, left, vec_len, inner>>

\* commit_txn, abort_txn, wait_for_txn, drop_txn: Ok(())
commit_txn(t, h) == NoOp(t, "commit_txn", h, Ok)

\* an abort that takes the writes of the transaction back
abort_txn_undo(t, h) ==
    /\ Whole(t, [Call("abort_txn", 0, << >>, << >>, << >>) EXCEPT !.db = h], Ok)
    /\ containers' = [i \in DOMAIN containers |-> [containers[i] EXCEPT !.map = EmptyMap]]
    /\ UNCHANGED <<db_created, lockW, lockR, listW, listR, iters, spawned, left, vec_len, inner>>

abort_txn(t, h) == NoOp(t, "abort_txn", h, Ok)

wait_for_txn(t, h) == NoOp(t, "wait_for_txn", h, Ok)

drop_txn(t, h) == NoOp(t, "drop_txn", h, Ok)

\* ---- the callers ----

Ids == 0..(NumContainers - 1)

\* the batches insert_values is called with: two pairs
Batches == {<<<<k1, v>>, <<k2, v>>>> : k1 \in Keys, k2 \in Keys, v \in Vals}

\* setup_table of the tests: the main thread opens the database and creates
\* the containers before any worker runs
MainOpenDb == ~db_created /\ ~spawned /\ open_db(Main)

\* the kinds of the containers the setup creates: Hash, BTree, Hash, ...
SetupType(n) == IF n % 2 = 0 THEN "Hash" ELSE "BTree"

MainCreate ==
    /\ db_created /\ ~spawned /\ Len(containers) < NumContainers
    /\ create_container(Main, 0, SetupType(Len(containers)))

\* a worker calls a point mutation on a container that was created
CallWrite ==
    \E t \in Workers, c \in Ids, k \in Keys, v \in Vals :
        /\ spawned
        /\ \/ point_write(t, Call("insert_value", c, k, v, << >>))
           \/ point_write(t, Call("update_value", c, k, v, << >>))
           \/ point_write(t, Call("delete_value", c, k, << >>, << >>))

CallInsertValues ==
    \E t \in Workers, c \in Ids, b \in Batches :
        spawned /\ point_write(t, Call("insert_values", c, << >>, << >>, b))

CallRead ==
    \E t \in Workers, c \in Ids, k \in Keys :
        spawned /\ point_read(t, Call("get_value", c, k, << >>, << >>))

CallCheck ==
    \E t \in Workers, c \in Ids, k \in Keys :
        spawned /\ point_read(t, Call("check_value", c, k, << >>, << >>))

CallScan == \E t \in Workers, c \in Ids : spawned /\ scan_range(t, c)

CallNext == \E t \in Workers : spawned /\ iter_next(t, t)

CallDrop == \E t \in Workers : spawned /\ drop_iterator_handle(t)

CallDeleteContainer ==
    \E t \in Workers, c \in Ids : spawned /\ delete_container(t, 0, c)

\* the steps inside the calls
Step ==
    \E t \in Threads :
        \/ create_container_lock(t)
        \/ create_container_push(t)
        \/ write_lock(t)
        \/ write_apply(t)
        \/ read_lock(t)
        \/ read_get(t)
        \/ scan_lock(t)
        \/ next_lock(t)
        \/ next_advance(t)
        \/ delete_container_lock(t)
        \/ clear_lock(t)
        \/ clear_apply(t)

Next ==
    \/ MainOpenDb
    \/ MainCreate
    \/ Spawn
    \/ CallWrite
    \/ CallRead
    \/ CallScan
    \/ CallNext
    \/ CallDrop
    \/ CallDeleteContainer
    \/ Step

Spec == Init /\ [][Next]_vars

\* ---- test_concurrent_insert ----

\* usize::to_be_bytes: the eight bytes of n, most significant first
RECURSIVE Pow256(_)
Pow256(e) == IF e = 0 THEN 1 ELSE 256 * Pow256(e - 1)

\* (the keys of the tests are below 2^24: their five upper bytes are 0)
ToBeBytes(n) == [j \in 1..8 |-> IF j <= 5 THEN 0 ELSE (n \div Pow256(8 - j)) % 256]

\* usize::from_be_bytes
RECURSIVE FromBeAcc(_, _)
FromBeAcc(b, acc) == IF b = << >> THEN acc ELSE FromBeAcc(Tail(b), acc * 256 + Head(b))

FromBeBytes(b) == FromBeAcc(b, 0)

\* the BTree container the test inserts into
OrderedId == CHOOSE c \in Ids : SetupType(c) = "BTree"

\* the k-th key of thread i: i * num_keys_per_thread + k, threads counted from 0
TestKey(t, k) == ToBeBytes((t - 1) * KeysPerThread + k)

\* a worker runs the next iteration of its loop: insert_value(key, key)
TestInsert ==
    \E t \in Workers :
        /\ spawned
        /\ th[t].pc = "idle"
        /\ th[t].n < KeysPerThread
        /\ \E q \in IndexPc(t, OrderedId, "w_lock") :
             th' = [th EXCEPT ![t] = [IdleThread EXCEPT
                      !.pc = q,
                      !.op = Call("insert_value", OrderedId,
                                  TestKey(t, th[t].n), TestKey(t, th[t].n), << >>),
                      !.n = th[t].n + 1]]
        /\ UNCHANGED <<db_created, containers, lockW, lockR, listW, listR, iters, spawned, left, vec_len, inner>>

\* t.join() for every thread
Joined == spawned /\ \A w \in Workers : th[w].pc = "idle" /\ th[w].n = KeysPerThread

\* the main thread scans the container after the join
TestScan == Joined /\ scan_range(Main, OrderedId)

TestNext == Joined /\ iter_next(Main, Main)

TestStep ==
    \E t \in Threads :
        \/ create_container_lock(t)
        \/ create_container_push(t)
        \/ write_lock(t)
        \/ write_apply(t)
        \/ scan_lock(t)
        \/ next_lock(t)
        \/ next_advance(t)

TestNext1 ==
    \/ MainOpenDb
    \/ MainCreate
    \/ Spawn
    \/ TestInsert
    \/ TestScan
    \/ TestNext
    \/ TestStep

TestSpec == Init /\ [][TestNext1]_vars

\* ---- test_concurrent_insert_and_container_ops ----

\* the container the main thread deletes while the workers insert into OrderedId
OtherId == CHOOSE c \in Ids : c # OrderedId

\* the main thread creates one more container while the workers insert
RaceCreate ==
    /\ spawned
    /\ Len(containers) = NumContainers
    /\ create_container(Main, 0, "BTree")

\* then it deletes the other container
RaceDelete ==
    /\ spawned
    /\ Len(containers) = NumContainers + 1
    /\ th[Main].res.of = "create_container"
    /\ delete_container(Main, 0, OtherId)

\* and scans after the join
RaceScan ==
    /\ Joined
    /\ th[Main].res.of = "delete_container"
    /\ scan_range(Main, OrderedId)

RaceStep ==
    \E t \in Threads :
        \/ create_container_lock(t)
        \/ create_container_push(t)
        \/ delete_container_lock(t)
        \/ clear_lock(t)
        \/ clear_apply(t)
        \/ write_lock(t)
        \/ write_apply(t)
        \/ scan_lock(t)
        \/ next_lock(t)
        \/ next_advance(t)

RaceNext ==
    \/ MainOpenDb
    \/ MainCreate
    \/ Spawn
    \/ TestInsert
    \/ RaceCreate
    \/ RaceDelete
    \/ RaceScan
    \/ TestNext
    \/ RaceStep

RaceSpec == Init /\ [][RaceNext]_vars

\* ---- the fair specification ----

\* a thread waits in lock.write() of container c
WriterWaits(c) ==
    \E u \in Threads : th[u].pc \in {"w_lock", "cl_lock"} /\ th[u].op.c = c

\* the main thread keeps an iterator while the workers run point operations
LiveMainScan == \E c \in Ids : spawned /\ scan_range(Main, c)

LiveMainDrop == spawned /\ drop_iterator_handle(Main)

LiveStep ==
    \E t \in Threads :
        \/ create_container_lock(t)
        \/ create_container_push(t)
        \/ write_lock(t)
        \/ write_apply(t)
        \/ read_lock(t)
        \/ read_get(t)
        \/ scan_lock(t)

LiveNext ==
    \/ MainOpenDb
    \/ MainCreate
    \/ Spawn
    \/ CallWrite
    \/ CallRead
    \/ LiveMainScan
    \/ LiveMainDrop
    \/ LiveStep

\* Every thread that can take a step of its call takes it.  lock.write() is
\* granted when the lock stays free.  lock.read() is granted when the lock
\* stays free of writers and no writer waits: std::sync::RwLock does not say
\* whether a read() issued while a writer waits is admitted.  Callers need not
\* call, and need not drop an iterator.
LiveFairness ==
    \A t \in Threads :
        /\ WF_vars(create_container_lock(t))
        /\ WF_vars(create_container_push(t))
        /\ WF_vars(write_lock(t))
        /\ WF_vars(write_apply(t))
        /\ WF_vars(read_get(t))
        /\ WF_vars(read_lock(t) /\ ~WriterWaits(th[t].op.c))
        /\ WF_vars(scan_lock(t) /\ ~WriterWaits(th[t].op.c))

LiveSpec == Init /\ [][LiveNext]_vars /\ LiveFairness

\* ---- where the threads are ----

\* thread t is inside the write section of insert, update, remove or clear on c
InWrite(t, c) == th[t].pc \in {"w_apply", "cl_clear"} /\ th[t].op.c = c

\* thread t is inside get on c, under the read guard
InGet(t, c) == th[t].pc = "r_get" /\ th[t].op.c = c

\* thread t holds a live iterator on c
HoldsIter(t, c) == Alive(t) /\ Iter(t).c = c

\* thread t waits for the lock of container c
WaitsFor(t, c) == th[t].pc \in {"w_lock", "r_lock", "s_lock", "cl_lock"} /\ th[t].op.c = c

\* ---- C1 ----
\* C1: per-container reader-writer exclusion.  Whenever a thread is inside the
\* write section of insert, update, remove or clear on a container, no other
\* thread is inside a write section on it, inside get on it, or holds a live
\* iterator on it.
C1_Exclusion ==
    \A c \in Ids : \A t \in Threads :
        (ValidId(c) /\ InWrite(t, c)) =>
            \A u \in Threads \ {t} :
                ~InWrite(u, c) /\ ~InGet(u, c) /\ ~HoldsIter(u, c)

\* a thread is inside a write section while another one waits for the same lock
C1_Witness ==
    \E c \in Ids : \E t \in Threads : \E u \in Threads \ {t} :
        ValidId(c) /\ InWrite(t, c) /\ WaitsFor(u, c)

\* ---- C2 ----
\* C2: iterator isolation.  While an iterator on container C is alive the
\* contents of C are those C held when scan_range returned; every pair
\* iter_next has returned is a pair of those contents, no key is returned
\* twice, and once iter_next has returned None the returned pairs are exactly
\* those contents.
C2_IteratorIsolation ==
    \A i \in Threads :
        Alive(i) =>
            LET it == Iter(i) IN
            /\ Slot(it.c).map = it.snap
            /\ \A n \in DOMAIN it.out :
                   /\ it.out[n][1] \in DOMAIN it.snap
                   /\ it.out[n][2] = it.snap[it.out[n][1]]
                   /\ \A m \in DOMAIN it.out : m # n => it.out[m][1] # it.out[n][1]
            /\ it.done => KeysOf(it.out) = DOMAIN it.snap

\* an iterator has returned a pair and then None while a writer waits for
\* the container
C2_Witness ==
    \E i \in Threads : \E u \in Threads \ {i} :
        /\ Alive(i) /\ Iter(i).done /\ Iter(i).out # << >>
        /\ th[u].pc \in {"w_lock", "cl_lock"} /\ th[u].op.c = Iter(i).c

\* ---- C3 ----
\* some thread other than u holds a live iterator on c
IterByOther(u, c) == \E i \in Threads \ {u} : HoldsIter(i, c)

\* a get_value of u on c has called lock.read() and, while another thread
\* keeps an iterator on c alive, has not been admitted
GetPending(u, c) ==
    th[u].pc = "r_lock" /\ th[u].op.kind = "get_value" /\ th[u].op.c = c /\ IterByOther(u, c)

\* an insert_value, update_value or delete_value of u on c waits for the lock
WritePending(u, c) == th[u].pc = "w_lock" /\ th[u].op.c = c

\* part 1 of C3: a get_value on C completes while the iterator is alive
C3_GetCompletes ==
    \A u \in Workers : \A c \in Ids : GetPending(u, c) ~> ~GetPending(u, c)

\* part 2 of C3: no write on C takes effect while another thread's iterator
\* on C is alive
C3_WriteWaits ==
    [](\A u \in Threads : \A c \in Ids :
          (ValidId(c) /\ IterByOther(u, c)) => ~InWrite(u, c))

\* part 3 of C3: once the iterators on C are dropped for good, a write that
\* waits for C completes
C3_WriteResumes ==
    \A u \in Workers : \A c \in Ids :
        (<>[](\A i \in Threads : ~HoldsIter(i, c))) => ([]<>(~WritePending(u, c)))

\* C3: while an iterator on container C is alive, a get_value on C by another
\* thread completes and an insert_value, update_value or delete_value on C by
\* another thread does not take effect; once every iterator on C is dropped,
\* the blocked write eventually completes (under fair scheduling).
C3_Claim == C3_GetCompletes /\ C3_WriteWaits /\ C3_WriteResumes

\* ---- C4 ----
\* the pairs a full scan returns when every key of every thread is there:
\* (key, key) for the keys 0, 1, ... in this order
AllInserted == [n \in 1..(NumWorkers * KeysPerThread) |-> <<ToBeBytes(n - 1), ToBeBytes(n - 1)>>]

\* C4: threads inserting disjoint key ranges into one BTree container.  Every
\* insert_value returns Ok, and the full scan after the join yields every
\* inserted key exactly once with its value, in strictly ascending key order
\* (NumWorkers * KeysPerThread entries).
C4_ConcurrentInsert ==
    /\ \A t \in Workers : th[t].res.of = "insert_value" => th[t].res.tag = "Ok"
    /\ (Alive(Main) /\ Iter(Main).done) =>
          /\ Iter(Main).out = AllInserted
          /\ \A n \in DOMAIN Iter(Main).out :
                FromBeBytes(Iter(Main).out[n][1]) = n - 1
          /\ \A n \in 1..(Len(Iter(Main).out) - 1) :
                LexLess(Iter(Main).out[n][1], Iter(Main).out[n + 1][1])

\* the scan after the join has returned None
C4_Witness ==
    /\ Joined /\ Alive(Main) /\ Iter(Main).done
    /\ Len(Iter(Main).out) = NumWorkers * KeysPerThread

\* ---- C5 ----
\* thread t reads the container vector in this step (the index of a point
\* operation or of scan_range)
IndexStep(t) == th[t].pc = "idle" /\ th'[t].pc \in {"w_lock", "r_lock", "s_lock", "crashed", "panicked", "raced"}

\* no insert into the existing container fails, and none is lost
C5_InsertsSafe ==
    /\ \A t \in Workers :
          /\ th[t].pc \notin {"crashed", "panicked"}
          /\ th[t].res.of = "insert_value" => th[t].res.tag = "Ok"
    /\ (Alive(Main) /\ Iter(Main).done) => Iter(Main).out = AllInserted

\* no point operation reads the container vector while create_container is
\* inside its write section
C5_NoRacyIndex ==
    \A t \in Threads : IndexStep(t) => ~PushPending(t)

\* C5: create_container and delete_container of other containers are safe
\* while other threads run point operations on an existing container: no
\* insert into the existing container is lost or fails, and no point operation
\* reads the container slot list while create_container is modifying it.
C5_Claim == [](C5_InsertsSafe) /\ [][C5_NoRacyIndex]_vars

\* ---- insert_values next to single-key calls ----

BatchStep ==
    \E t \in Threads :
        \/ create_container_lock(t)
        \/ create_container_push(t)
        \/ write_lock(t)
        \/ write_apply(t)
        \/ read_lock(t)
        \/ read_get(t)

BatchNext ==
    \/ MainOpenDb
    \/ MainCreate
    \/ Spawn
    \/ CallInsertValues
    \/ CallWrite
    \/ CallRead
    \/ CallCheck
    \/ BatchStep

BatchSpec == Init /\ [][BatchNext]_vars

\* ---- the life of the database ----

\* the database ids the callers pass: the id open_db returns, and another
DbIds == {0, 1}

\* the threads that use the database: the main thread and one worker
DbThreads == {Main, 1}

\* no thread is inside a call (assumption 1: the database is not created or
\* deleted while other threads are accessing it)
Quiet == \A t \in Threads : th[t].pc = "idle"

\* no delete_db is under way
NoDbChange == \A t \in Threads : th[t].pc # "ddb_clear"

\* create_container calls that have not pushed yet
Creating == Cardinality({t \in Threads : th[t].pc \in {"cc_lock", "cc_push"}})

DbOpen == Quiet /\ open_db(Main)

DbClose == \E db \in DbIds : Quiet /\ close_db(Main, db)

DbDelete == \E db \in DbIds : Quiet /\ delete_db(Main, db)

DbCreate ==
    \E t \in DbThreads, db \in DbIds :
        /\ NoDbChange
        /\ Len(containers) + Creating < NumContainers
        /\ create_container(t, db, SetupType(Len(containers) + Creating))

DbDeleteContainer ==
    \E t \in DbThreads, db \in DbIds, c \in Ids :
        NoDbChange /\ ValidId(c) /\ delete_container(t, db, c)

DbList == \E t \in DbThreads, db \in DbIds : NoDbChange /\ list_containers(t, db)

DbInsert ==
    \E t \in DbThreads, c \in Ids, k \in Keys, v \in Vals :
        NoDbChange /\ ValidId(c) /\ point_write(t, Call("insert_value", c, k, v, << >>))

DbGet ==
    \E t \in DbThreads, c \in Ids, k \in Keys :
        NoDbChange /\ ValidId(c) /\ point_read(t, Call("get_value", c, k, << >>, << >>))

DbStep ==
    \E t \in DbThreads :
        \/ delete_db_clear(t)
        \/ create_container_lock(t)
        \/ create_container_push(t)
        \/ delete_container_lock(t)
        \/ clear_lock(t)
        \/ clear_apply(t)
        \/ list_containers_lock(t)
        \/ list_containers_read(t)
        \/ write_lock(t)
        \/ write_apply(t)
        \/ read_lock(t)
        \/ read_get(t)

DbNext ==
    \/ DbOpen
    \/ DbClose
    \/ DbDelete
    \/ DbCreate
    \/ DbDeleteContainer
    \/ DbList
    \/ DbInsert
    \/ DbGet
    \/ DbStep

DbSpec == Init /\ [][DbNext]_vars

\* ---- transactions around the point operations ----

\* the handles the callers pass: a handle is the database id it was made with
TxnHandles == {0, 1}

\* a thread calls a transaction or connection operation: the main thread at
\* any time, the workers once they run
CallTxn ==
    \E t \in Threads, h \in TxnHandles :
        /\ t = Main \/ spawned
        /\ \/ begin_txn(t, h)
           \/ commit_txn(t, h)
           \/ abort_txn(t, h)
           \/ wait_for_txn(t, h)
           \/ drop_txn(t, h)
           \/ close_db(t, h)

TxnStep ==
    \E t \in Threads :
        \/ create_container_lock(t)
        \/ create_container_push(t)
        \/ write_lock(t)
        \/ write_apply(t)
        \/ read_lock(t)
        \/ read_get(t)

TxnNext ==
    \/ MainOpenDb
    \/ MainCreate
    \/ Spawn
    \/ CallTxn
    \/ CallWrite
    \/ CallRead
    \/ TxnStep

TxnSpec == Init /\ [][TxnNext]_vars

\* ---- operations on different containers side by side ----

\* the main thread creates one more container while the workers run
ParCreate ==
    /\ spawned
    /\ Len(containers) = NumContainers
    /\ create_container(Main, 0, "Hash")

\* the main thread lists the containers while the workers run
ParList == spawned /\ list_containers(Main, 0)

ParStep ==
    \E t \in Threads :
        \/ create_container_lock(t)
        \/ create_container_push(t)
        \/ list_containers_lock(t)
        \/ list_containers_read(t)
        \/ delete_container_lock(t)
        \/ clear_lock(t)
        \/ clear_apply(t)
        \/ write_lock(t)
        \/ write_apply(t)
        \/ read_lock(t)
        \/ read_get(t)
        \/ scan_lock(t)

ParNext ==
    \/ MainOpenDb
    \/ MainCreate
    \/ Spawn
    \/ ParCreate
    \/ ParList
    \/ CallWrite
    \/ CallRead
    \/ CallScan
    \/ CallDeleteContainer
    \/ ParStep

ParSpec == Init /\ [][ParNext]_vars

\* ---- container ids without a slot ----

\* the ids the callers try: those of the setup and one beyond
BadIds == 0..NumContainers

\* a worker uses an id that has no slot in each operation that takes one
CallBad ==
    \E t \in Workers, c \in BadIds, k \in Keys, v \in Vals :
        /\ spawned
        /\ ~ValidId(c)
        /\ \/ point_read(t, Call("check_value", c, k, << >>, << >>))
           \/ point_read(t, Call("get_value", c, k, << >>, << >>))
           \/ point_write(t, Call("insert_value", c, k, v, << >>))
           \/ point_write(t, Call("insert_values", c, << >>, << >>, <<<<k, v>>>>))
           \/ point_write(t, Call("update_value", c, k, v, << >>))
           \/ point_write(t, Call("delete_value", c, k, << >>, << >>))
           \/ scan_range(t, c)
           \/ delete_container(t, 0, c)

\* the main thread deletes the database while no worker is inside a call:
\* the ids of the setup lose their slots
BadDeleteDb ==
    /\ spawned
    /\ \A w \in Workers : th[w].pc \in {"idle", "panicked"}
    /\ delete_db(Main, 0)

BadStep ==
    \E t \in Threads :
        \/ create_container_lock(t)
        \/ create_container_push(t)
        \/ delete_db_clear(t)
        \/ delete_container_lock(t)
        \/ clear_lock(t)
        \/ clear_apply(t)
        \/ index_raced(t)
        \/ write_lock(t)
        \/ write_apply(t)
        \/ read_lock(t)
        \/ read_get(t)
        \/ scan_lock(t)

BadNext ==
    \/ MainOpenDb
    \/ MainCreate
    \/ Spawn
    \/ ParCreate
    \/ BadDeleteDb
    \/ CallBad
    \/ BadStep

BadSpec == Init /\ [][BadNext]_vars

\* ---- the ids of long container lists ----
\* The ids that create_container and list_containers compute depend on the
\* container list through its length alone; here the list is given by its
\* length, vec_len, which goes beyond the values of ContainerId.

\* u16::MAX, the largest ContainerId
MaxContainerId == 65535

\* the slots the callers add beyond MaxContainerId
MoreSlots == 3

\* the lengths the list starts with: open_db and that many create_container
\* calls have returned
StartLens == (MaxContainerId - 1)..(MaxContainerId + 1)

LongInit ==
    /\ db_created = TRUE
    /\ containers = << >>
    /\ lockW = << >>
    /\ lockR = << >>
    /\ listW = {}
    /\ listR = 0
    /\ iters = [t \in Threads |-> << >>]
    /\ spawned = FALSE
    /\ th = [t \in Threads |-> IdleThread]
    /\ left = [ops |-> MaxOps, scans |-> MaxScans]
    /\ vec_len \in StartLens
    /\ inner = NewInner

\* create_container on the list of vec_len slots: the push and the id
LongCreate ==
    \E t \in DbThreads, db \in DbIds :
        /\ vec_len < MaxContainerId + MoreSlots
        /\ LET o == [Call("create_container", 0, << >>, << >>, << >>) EXCEPT !.db = db, !.ty = "Hash"]
           IN IF db # 0
              THEN Whole(t, o, Result("DBNotFound")) /\ UNCHANGED vec_len
              ELSE Whole(t, o, OkId(CreatedId(vec_len + 1))) /\ vec_len' = vec_len + 1
        /\ UNCHANGED <<db_created, containers, lockW, lockR, listW, listR, iters, spawned, left, inner>>

\* list_containers on the list of vec_len slots
LongList ==
    \E t \in DbThreads, db \in DbIds :
        /\ LET o == [Call("list_containers", 0, << >>, << >>, << >>) EXCEPT !.db = db]
           IN IF db # 0
              THEN Whole(t, o, Result("DBNotFound"))
              ELSE Whole(t, o, OkIds(ListedIds(vec_len)))
        /\ UNCHANGED <<db_created, containers, lockW, lockR, listW, listR, iters, spawned, left, vec_len, inner>>

LongNext == LongCreate \/ LongList

LongSpec == LongInit /\ [][LongNext]_vars

\* ---- iter_next from several threads on one iterator ----

\* a worker calls iter_next on its own iterator or on another worker's
ShareIterNext == \E t \in Workers, i \in Workers : spawned /\ iter_next(t, i)

ShareStep ==
    \E t \in Threads :
        \/ create_container_lock(t)
        \/ create_container_push(t)
        \/ write_lock(t)
        \/ write_apply(t)
        \/ scan_lock(t)
        \/ next_lock(t)
        \/ next_advance(t)

ShareNext ==
    \/ MainOpenDb
    \/ MainCreate
    \/ Spawn
    \/ CallWrite
    \/ CallScan
    \/ ShareIterNext
    \/ CallDrop
    \/ ShareStep

ShareSpec == Init /\ [][ShareNext]_vars

\* ---- container operations next to iterators and readers ----

\* a worker creates one more container
HoldCreate ==
    \E t \in Workers :
        /\ spawned
        /\ Len(containers) + Creating = NumContainers
        /\ create_container(t, 0, "Hash")

\* a worker lists the containers
HoldList == \E t \in Workers : spawned /\ list_containers(t, 0)

HoldStep ==
    \E t \in Threads :
        \/ create_container_lock(t)
        \/ create_container_push(t)
        \/ list_containers_lock(t)
        \/ list_containers_read(t)
        \/ delete_container_lock(t)
        \/ clear_lock(t)
        \/ clear_apply(t)
        \/ read_lock(t)
        \/ read_get(t)
        \/ scan_lock(t)

HoldNext ==
    \/ MainOpenDb
    \/ MainCreate
    \/ Spawn
    \/ HoldCreate
    \/ HoldList
    \/ CallDeleteContainer
    \/ CallRead
    \/ CallScan
    \/ CallDrop
    \/ HoldStep

HoldSpec == Init /\ [][HoldNext]_vars

\* ---- inmem/txn_storage.rs: the engine behind one Mutex ----
\* Every handler locks InMemStorage.inner for its whole body, so a handler is
\* one step.

\* the values of this engine: the key of a value is a part of the value
MxVals == {<<k, d>> : k \in 1..MaxKey, d \in 1..MaxVal}

\* ContainerType::Hash(f) / BTree(f): f, the key of a value; the callers here
\* pass the slice of its first byte
KeyOf(val) == <<val[1]>>

\* as DatabaseId, DatabaseId = u16
AsDatabaseId(n) == n % 65536

\* Storage::insert, HashMap / BTreeMap: h.insert(key.clone(), val); Ok(key)
MxStorageInsert(st, val) ==
    [st |-> [st EXCEPT !.map = MapPut(@, KeyOf(val), val)],
     res |-> OkVal(KeyOf(val))]

\* Storage::get, HashMap / BTreeMap
MxStorageGet(st, k) ==
    IF k \in DOMAIN st.map THEN OkVal(st.map[k]) ELSE Result("KeyNotFound")

\* Storage::update, HashMap / BTreeMap, after the assert: h.insert(key, val)
\* writes the entry, then Some(old_val) => Ok(old_val), None => KeyNotFound
MxStorageUpdate(st, k, val) ==
    [st |-> [st EXCEPT !.map = MapPut(@, k, val)],
     res |-> IF k \in DOMAIN st.map THEN OkVal(st.map[k]) ELSE Result("KeyNotFound")]

\* Storage::remove, HashMap / BTreeMap
MxStorageRemove(st, k) ==
    IF k \in DOMAIN st.map
      THEN [st |-> [st EXCEPT !.map = MapDel(@, k)], res |-> Ok]
      ELSE [st |-> st, res |-> Result("KeyNotFound")]

\* what a handler of this engine leaves alone
MxFrame == UNCHANGED <<db_created, containers, lockW, lockR, listW, listR, iters, spawned, left, vec_len>>

\* self.inner.lock().unwrap() on a poisoned Mutex, or a panic under the
\* guard, which poisons it: the thread is gone
MxPanic(t, o) ==
    /\ Enter(t, o, "panicked")
    /\ inner' = [inner EXCEPT !.poisoned = TRUE]

\* the handler returns r and leaves the databases as they are
MxReturn(t, o, r) == Whole(t, o, r) /\ UNCHANGED inner

\* the handler returns r with the databases d
MxReturnWith(t, o, r, d) == Whole(t, o, r) /\ inner' = [inner EXCEPT !.dbs = d]

\* open_db: db_id = dbs.len() as DatabaseId, dbs.insert(db_id, HashMap::new())
mx_open_db(t) ==
    /\ LET o == Call("open_db", 0, << >>, << >>, << >>)
           id == AsDatabaseId(Cardinality(DOMAIN inner.dbs))
           d == MapPut(inner.dbs, id, EmptyMap)
       IN IF inner.poisoned THEN MxPanic(t, o)
          ELSE IF id \in DOMAIN inner.dbs
            THEN MxReturnWith(t, o, Result("DBExists"), d)
            ELSE MxReturnWith(t, o, OkId(id), d)
    /\ MxFrame

\* delete_db: dbs.remove(db_id)
mx_delete_db(t, db) ==
    /\ LET o == [Call("delete_db", 0, << >>, << >>, << >>) EXCEPT !.db = db]
       IN IF inner.poisoned THEN MxPanic(t, o)
          ELSE IF db \in DOMAIN inner.dbs
            THEN MxReturnWith(t, o, Ok, MapDel(inner.dbs, db))
            ELSE MxReturn(t, o, Result("DBNotFound"))
    /\ MxFrame

\* create_container: c_id = db.len() as ContainerId,
\* db.insert(c_id, Storage::new(..)), Ok(c_id)
mx_create_container(t, db, ty) ==
    /\ LET o == [Call("create_container", 0, << >>, << >>, << >>) EXCEPT !.db = db, !.ty = ty]
       IN IF inner.poisoned THEN MxPanic(t, o)
          ELSE IF db \in DOMAIN inner.dbs
            THEN LET id == AsContainerId(Cardinality(DOMAIN inner.dbs[db]))
                 IN MxReturnWith(t, o, OkId(id),
                        [inner.dbs EXCEPT ![db] = MapPut(@, id, NewStorage(ty))])
            ELSE MxReturn(t, o, Result("DBNotFound"))
    /\ MxFrame

\* delete_container: db.remove(c_id), Ok whether or not the entry was there
mx_delete_container(t, db, c) ==
    /\ LET o == [Call("delete_container", c, << >>, << >>, << >>) EXCEPT !.db = db]
       IN IF inner.poisoned THEN MxPanic(t, o)
          ELSE IF db \in DOMAIN inner.dbs
            THEN MxReturnWith(t, o, Ok, [inner.dbs EXCEPT ![db] = MapDel(@, c)])
            ELSE MxReturn(t, o, Result("DBNotFound"))
    /\ MxFrame

\* list_containers: db.keys().cloned().collect()
mx_list_containers(t, db) ==
    /\ LET o == [Call("list_containers", 0, << >>, << >>, << >>) EXCEPT !.db = db]
       IN IF inner.poisoned THEN MxPanic(t, o)
          ELSE IF db \in DOMAIN inner.dbs
            THEN MxReturn(t, o, OkIds(DOMAIN inner.dbs[db]))
            ELSE MxReturn(t, o, Result("DBNotFound"))
    /\ MxFrame

\* the container of a point operation: dbs.get(&0), then db.get(c_id)
MxFind(c) ==
    IF 0 \notin DOMAIN inner.dbs THEN Result("DBNotFound")
    ELSE IF c \notin DOMAIN inner.dbs[0] THEN Result("ContainerNotFound")
    ELSE Ok

\* the handler of a point operation that changes the container: u is what
\* the Storage method gives for the container it finds
MxChange(t, o, u) ==
    MxReturnWith(t, o, u.res, [inner.dbs EXCEPT ![0][o.c] = u.st])

\* insert_value: storage.insert(value)
mx_insert_value(t, c, val) ==
    /\ LET o == Call("insert_value", c, << >>, val, << >>)
       IN IF inner.poisoned THEN MxPanic(t, o)
          ELSE IF MxFind(c) # Ok THEN MxReturn(t, o, MxFind(c))
          ELSE MxChange(t, o, MxStorageInsert(inner.dbs[0][c], val))
    /\ MxFrame

\* get_value: storage.get(key)
mx_get_value(t, c, k) ==
    /\ LET o == Call("get_value", c, k, << >>, << >>)
       IN IF inner.poisoned THEN MxPanic(t, o)
          ELSE IF MxFind(c) # Ok THEN MxReturn(t, o, MxFind(c))
          ELSE MxReturn(t, o, MxStorageGet(inner.dbs[0][c], k))
    /\ MxFrame

\* update_value: storage.update(key, value), which starts with
\* assert_eq!(f(&val), key)
mx_update_value(t, c, k, val) ==
    /\ LET o == Call("update_value", c, k, val, << >>)
       IN IF inner.poisoned THEN MxPanic(t, o)
          ELSE IF MxFind(c) # Ok THEN MxReturn(t, o, MxFind(c))
          ELSE IF KeyOf(val) # k THEN MxPanic(t, o)
          ELSE MxChange(t, o, MxStorageUpdate(inner.dbs[0][c], k, val))
    /\ MxFrame

\* delete_value: storage.remove(key)
mx_delete_value(t, c, k) ==
    /\ LET o == Call("delete_value", c, k, << >>, << >>)
       IN IF inner.poisoned THEN MxPanic(t, o)
          ELSE IF MxFind(c) # Ok THEN MxReturn(t, o, MxFind(c))
          ELSE MxChange(t, o, MxStorageRemove(inner.dbs[0][c], k))
    /\ MxFrame

\* the databases the callers keep open at a time
MaxDbs == 1

\* the callers: the main thread calls every operation, one worker reads and
\* updates

MxOpenDb == \E t \in {Main} : Cardinality(DOMAIN inner.dbs) < MaxDbs /\ mx_open_db(t)

MxDeleteDb == \E t \in {Main}, db \in DbIds : mx_delete_db(t, db)

MxCreate ==
    \E t \in {Main}, db \in DbIds, ty \in CTypes :
        /\ db \in DOMAIN inner.dbs => Cardinality(DOMAIN inner.dbs[db]) < NumContainers
        /\ mx_create_container(t, db, ty)

MxDeleteContainer == \E t \in {Main}, db \in DbIds, c \in Ids : mx_delete_container(t, db, c)

MxList == \E t \in {Main}, db \in DbIds : mx_list_containers(t, db)

MxInsert == \E t \in {Main}, c \in Ids, v \in MxVals : mx_insert_value(t, c, v)

MxGet == \E t \in DbThreads, c \in Ids, k \in Keys : mx_get_value(t, c, k)

MxUpdate == \E t \in DbThreads, c \in Ids, k \in Keys, v \in MxVals : mx_update_value(t, c, k, v)

MxDelete == \E t \in {Main}, c \in Ids, k \in Keys : mx_delete_value(t, c, k)

MxNext ==
    \/ MxOpenDb
    \/ MxDeleteDb
    \/ MxCreate
    \/ MxDeleteContainer
    \/ MxList
    \/ MxInsert
    \/ MxGet
    \/ MxUpdate
    \/ MxDelete

MxSpec == Init /\ [][MxNext]_vars

\* ---- C6 ----
\* thread t holds the lock of container c: inside a write section, inside
\* get, or through a live iterator
Holds(t, c) == InWrite(t, c) \/ InGet(t, c) \/ HoldsIter(t, c)

\* thread t waits for the write lock of c, which thread u holds
BlockedBy(t, u, c) ==
    /\ th[t].pc \in {"w_lock", "cl_lock"} /\ th[t].op.c = c
    /\ Holds(u, c)

\* t and u wait on each other's container locks, on two different containers:
\* neither can ever go on
CrossDeadlock(t, u) ==
    \E c \in Ids : \E d \in Ids \ {c} : BlockedBy(t, u, c) /\ BlockedBy(u, t, d)

PointMutations == {"insert_value", "update_value", "delete_value"}

\* the calls executed one at a time: what a point mutation does to the map m
\* and what it returns
Sequential(kind, m, k, v) ==
    CASE kind = "insert_value" ->
             IF k \in DOMAIN m THEN [map |-> m, tag |-> "KeyExists"]
             ELSE [map |-> MapPut(m, k, v), tag |-> "Ok"]
      [] kind = "update_value" ->
             IF k \in DOMAIN m THEN [map |-> MapPut(m, k, v), tag |-> "Ok"]
             ELSE [map |-> m, tag |-> "KeyNotFound"]
      [] kind = "delete_value" ->
             IF k \in DOMAIN m THEN [map |-> MapDel(m, k), tag |-> "Ok"]
             ELSE [map |-> m, tag |-> "KeyNotFound"]

\* thread t takes the step that ends its write section
EndsWrite(t) == th[t].pc \in {"w_apply", "cl_clear"} /\ th'[t].pc # th[t].pc

\* C7: point mutations on one container are linearizable.  Every
\* insert_value, update_value and delete_value takes effect in one step
\* between its call and its return, and in that step its result and the new
\* contents of the container are those of the call executed alone on the
\* contents the container has at that step; no other step of a point mutation
\* changes the contents.  The order of these steps is the total order.
C7_Linearizable ==
    [][ /\ \A t \in Threads :
              (th[t].pc = "w_apply" /\ th[t].op.kind \in PointMutations /\ EndsWrite(t)) =>
                  LET s == Sequential(th[t].op.kind, Slot(th[t].op.c).map,
                                      th[t].op.k, th[t].op.v) IN
                      /\ containers' = SetMap(th[t].op.c, s.map)
                      /\ th'[t].pc = "idle"
                      /\ th'[t].res.of = th[t].op.kind
                      /\ th'[t].res.tag = s.tag
        /\ \A c \in Ids :
              (ValidId(c) /\ containers'[c + 1].map # Slot(c).map) =>
                  \E t \in Threads : th[t].op.c = c /\ EndsWrite(t)
      ]_vars

\* two point mutations on the same key of the same container at once: one
\* inside its write section, the other waiting for the lock
C7_Witness ==
    \E t \in Workers : \E u \in Workers \ {t} :
        /\ th[t].pc = "w_apply" /\ th[u].pc = "w_lock"
        /\ th[t].op.kind \in PointMutations /\ th[u].op.kind \in PointMutations
        /\ th[t].op.c = th[u].op.c /\ th[t].op.k = th[u].op.k

\* ---- C8 ----
\* thread u takes a step in which its operation on c takes effect
TakesEffect(u, c) == th[u].op.c = c /\ EndsWrite(u)

\* thread u takes a step in which its operation looks at the contents of c
Observes(u, c) ==
    /\ th[u].op.c = c
    /\ \/ th[u].pc = "w_lock" /\ th'[u].pc = "w_apply"
       \/ th[u].pc = "r_get" /\ th'[u].pc # "r_get"

\* thread t is between two pairs of insert_values on c
BetweenPairs(t, c) ==
    /\ th[t].op.kind = "insert_values" /\ th[t].op.c = c
    /\ th[t].pc = "w_lock" /\ th[t].pos > 1

\* no step of another thread takes effect on c or observes c
Undisturbed(t, c) ==
    \A u \in Threads \ {t} : ~TakesEffect(u, c) /\ ~Observes(u, c)

\* one lookup and its effect are atomic, and nothing takes effect under a get
C8_PerLockSection ==
    \A t \in Threads : \A c \in Ids :
        /\ (th[t].pc = "w_apply" /\ th[t].op.c = c) => Undisturbed(t, c)
        /\ InGet(t, c) => \A u \in Threads \ {t} : ~TakesEffect(u, c)

\* C8 as claimed: every call is atomic with respect to the operations of
\* other threads on the same container, insert_values with several pairs
\* included: nothing takes effect on C or observes C between the first and
\* the last effect of a call.
C8_Claim ==
    [][ /\ C8_PerLockSection
        /\ \A t \in Threads : \A c \in Ids : BetweenPairs(t, c) => Undisturbed(t, c)
      ]_vars

\* C8 as amended: every single-key call is atomic with respect to the
\* operations of other threads on the same container, and insert_values is
\* atomic pair by pair: between the lookup and the effect of one pair no
\* other thread's operation takes effect on C or observes C, and nothing
\* takes effect on C while a get reads it.
C8_AtomicPerPair == [][C8_PerLockSection]_vars

\* a thread is between two pairs of insert_values on C while another thread
\* is inside its own operation on C
C8_Witness ==
    \E t \in Workers : \E u \in Workers \ {t} : \E c \in Ids :
        BetweenPairs(t, c) /\ (InWrite(u, c) \/ InGet(u, c))

\* ---- C9 ----
\* the step changes what container c stores for the key k it holds
Changed(c, k) ==
    /\ k \in DOMAIN Slot(c).map
    /\ \/ k \notin DOMAIN containers'[c + 1].map
       \/ containers'[c + 1].map[k] # Slot(c).map[k]

\* the step is a successful update_value or delete_value on k in c
SuccessfulChange(c, k) ==
    \E t \in Threads :
        /\ th[t].pc = "w_apply" /\ th[t].op.kind \in {"update_value", "delete_value"}
        /\ th[t].op.c = c /\ th[t].op.k = k
        /\ th'[t].res.tag = "Ok" /\ th'[t].res.of = th[t].op.kind

\* the step is the clear of delete_container on c
ClearStep(c) ==
    \E t \in Threads :
        th[t].pc = "cl_clear" /\ th[t].op.kind = "delete_container" /\ th[t].op.c = c

\* an insert_value that returns Ok has stored its value, and a get_value
\* returns what the container stores for the key
C9_InsertAndGet ==
    \A t \in Threads :
        /\ ( /\ th[t].pc = "w_apply" /\ th[t].op.kind = "insert_value"
             /\ th'[t].pc = "idle" /\ th'[t].res.tag = "Ok" ) =>
               /\ th[t].op.k \in DOMAIN containers'[th[t].op.c + 1].map
               /\ containers'[th[t].op.c + 1].map[th[t].op.k] = th[t].op.v
        /\ ( /\ th[t].pc = "r_get" /\ th[t].op.kind = "get_value"
             /\ th'[t].pc = "idle" ) =>
               IF th[t].op.k \in DOMAIN Slot(th[t].op.c).map
               THEN /\ th'[t].res.tag = "Ok"
                    /\ th'[t].res.val = Slot(th[t].op.c).map[th[t].op.k]
               ELSE th'[t].res.tag = "KeyNotFound"

\* C9 as claimed: after insert_value(C, k, v) returns Ok, every
\* get_value(C, k) returns v until a later successful update_value or
\* delete_value on k in C: the insert stores v, a get returns what is stored,
\* and what is stored for k changes only in a successful update_value or
\* delete_value on k in C.
C9_Claim ==
    [][ /\ C9_InsertAndGet
        /\ \A c \in Ids : \A k \in Keys :
              (ValidId(c) /\ Changed(c, k)) => SuccessfulChange(c, k)
      ]_vars

\* C9 as amended: after insert_value(C, k, v) returns Ok, every
\* get_value(C, k) returns v until a later successful update_value or
\* delete_value on k in C or a later delete_container of C, which clears C.
C9_InsertThenGet ==
    [][ /\ C9_InsertAndGet
        /\ \A c \in Ids : \A k \in Keys :
              (ValidId(c) /\ Changed(c, k)) => (SuccessfulChange(c, k) \/ ClearStep(c))
      ]_vars

\* a get_value has returned the value an insert_value stored
C9_Witness ==
    \E t \in Workers : \E c \in Ids : \E k \in Keys :
        /\ th[t].res.of = "get_value" /\ th[t].res.tag = "Ok"
        /\ ValidId(c) /\ k \in DOMAIN Slot(c).map /\ Slot(c).map[k] = th[t].res.val

\* ---- C10 ----
\* C10: insert_value(C, k, v) on a key already present in C returns KeyExists
\* and leaves the value stored for k, and the rest of C, unchanged, in Hash
\* and in BTree containers.
C10_InsertExisting ==
    [][ \A t \in Threads : \A ty \in CTypes :
          ( /\ th[t].pc = "w_apply" /\ th[t].op.kind = "insert_value"
            /\ Slot(th[t].op.c).ctype = ty
            /\ th[t].op.k \in DOMAIN Slot(th[t].op.c).map
            /\ th'[t].pc # "w_apply" ) =>
              /\ th'[t].res.of = "insert_value"
              /\ th'[t].res.tag = "KeyExists"
              /\ containers' = containers
      ]_vars

\* an insert_value has returned KeyExists, and the only container that holds
\* a key is a BTree container
C10_Witness ==
    /\ \E t \in Workers : th[t].res.of = "insert_value" /\ th[t].res.tag = "KeyExists"
    /\ \E c \in Ids :
          /\ ValidId(c) /\ Slot(c).ctype = "BTree" /\ Slot(c).map # EmptyMap
          /\ \A d \in Ids \ {c} : ValidId(d) /\ Slot(d).map = EmptyMap

\* ---- C11 ----
\* C11: update_value and delete_value on a key that is absent from C return
\* KeyNotFound and leave the contents of C unchanged (update does not create
\* the key), in Hash and in BTree containers.
C11_AbsentKey ==
    [][ \A t \in Threads : \A ty \in CTypes :
          ( /\ th[t].pc = "w_apply"
            /\ th[t].op.kind \in {"update_value", "delete_value"}
            /\ Slot(th[t].op.c).ctype = ty
            /\ th[t].op.k \notin DOMAIN Slot(th[t].op.c).map
            /\ th'[t].pc # "w_apply" ) =>
              /\ th'[t].res.of = th[t].op.kind
              /\ th'[t].res.tag = "KeyNotFound"
              /\ containers' = containers
      ]_vars

\* an update_value has returned KeyNotFound, and a delete_value on a BTree
\* container has found its key absent
C11_Witness ==
    \E t \in Workers : \E u \in Workers \ {t} :
        /\ th[t].res.of = "update_value" /\ th[t].res.tag = "KeyNotFound"
        /\ th[u].pc = "w_apply" /\ th[u].op.kind = "delete_value" /\ ~th[u].found
        /\ Slot(th[u].op.c).ctype = "BTree"

\* ---- C12 ----
\* the maps of the step agree on every key but k
OthersKept(m, n, k) ==
    /\ (DOMAIN n) \ {k} = (DOMAIN m) \ {k}
    /\ \A x \in (DOMAIN m) \ {k} : n[x] = m[x]

\* a get_value returns what the container stores for the key
GetReturnsStored ==
    \A t \in Threads :
        (th[t].pc = "r_get" /\ th[t].op.kind = "get_value" /\ th'[t].pc = "idle") =>
            LET m == Slot(th[t].op.c).map IN
            IF th[t].op.k \in DOMAIN m
              THEN th'[t].res.tag = "Ok" /\ th'[t].res.val = m[th[t].op.k]
              ELSE th'[t].res.tag = "KeyNotFound" /\ th'[t].res.val = << >>

\* C12: update_value(C, k, v2) on a present key returns Ok and replaces
\* exactly the value of k, delete_value(C, k) on a present key returns Ok and
\* removes exactly k; every other key of C keeps its value, and a following
\* get_value returns v2, or KeyNotFound after the delete.
C12_PresentKey ==
    [][ /\ \A t \in Threads :
              ( /\ th[t].pc = "w_apply"
                /\ th[t].op.kind \in {"update_value", "delete_value"}
                /\ th[t].op.k \in DOMAIN Slot(th[t].op.c).map
                /\ th'[t].pc # "w_apply" ) =>
                  LET c == th[t].op.c
                      k == th[t].op.k
                      n == containers'[c + 1].map
                  IN /\ th'[t].res.of = th[t].op.kind
                     /\ th'[t].res.tag = "Ok"
                     /\ OthersKept(Slot(c).map, n, k)
                     /\ \A d \in Ids \ {c} : ValidId(d) => containers'[d + 1] = Slot(d)
                     /\ IF th[t].op.kind = "update_value"
                          THEN k \in DOMAIN n /\ n[k] = th[t].op.v
                          ELSE k \notin DOMAIN n
        /\ GetReturnsStored
      ]_vars

\* an update_value has returned Ok on a container that holds two keys, and
\* now the two keys have different values
C12_Witness ==
    \E t \in Workers : \E c \in Ids :
        /\ th[t].res.of = "update_value" /\ th[t].res.tag = "Ok"
        /\ ValidId(c) /\ Cardinality(DOMAIN Slot(c).map) = 2
        /\ \E x \in DOMAIN Slot(c).map : \E y \in DOMAIN Slot(c).map :
              Slot(c).map[x] # Slot(c).map[y]

\* ---- C13 ----
\* thread t takes the step that returns from the call it is in
Returns(t, kind) == th[t].pc # "idle" /\ th'[t].pc = "idle" /\ th'[t].res.of = kind

\* the ids of the slots of the list
SlotIds == {i \in 0..(Len(containers) - 1) : TRUE}

\* C13: after delete_container(id) returns Ok, list_containers still contains
\* id, get_value on every key that was in the container fails KeyNotFound,
\* the id stays usable for new inserts, and the contents of every other
\* container are unchanged: the step that clears leaves the slot in the list,
\* empty, and the other slots as they are; list_containers returns the ids
\* of all slots; a get_value on an empty container returns KeyNotFound and an
\* insert_value on it returns Ok and stores the pair.
C13_DeleteContainer ==
    [][ \A t \in Threads :
          /\ (th[t].pc = "cl_clear" /\ th'[t].pc # "cl_clear") =>
                /\ Returns(t, "delete_container") /\ th'[t].res.tag = "Ok"
                /\ Len(containers') = Len(containers)
                /\ DOMAIN containers'[th[t].op.c + 1].map = {}
                /\ containers'[th[t].op.c + 1].ctype = Slot(th[t].op.c).ctype
                /\ \A d \in SlotIds \ {th[t].op.c} : containers'[d + 1] = Slot(d)
          /\ (th[t].pc = "lc_read" /\ th'[t].pc # "lc_read") =>
                /\ Returns(t, "list_containers") /\ th'[t].res.tag = "Ok"
                /\ th'[t].res.ids = SlotIds
          /\ (th[t].pc = "r_get" /\ th'[t].pc # "r_get"
                /\ DOMAIN Slot(th[t].op.c).map = {}) => th'[t].res.tag = "KeyNotFound"
          /\ (th[t].pc = "w_apply" /\ th'[t].pc # "w_apply"
                /\ th[t].op.kind = "insert_value"
                /\ DOMAIN Slot(th[t].op.c).map = {}) =>
                    /\ th'[t].res.tag = "Ok"
                    /\ containers'[th[t].op.c + 1].map = [x \in {th[t].op.k} |-> th[t].op.v]
      ]_vars

\* a delete_container has returned Ok, one container is empty and still in
\* the list, another one holds a key, and a list_containers is reading
C13_Witness ==
    \E t \in Threads : \E u \in Threads \ {t} : \E c \in SlotIds : \E d \in SlotIds \ {c} :
        /\ th[t].res.of = "delete_container" /\ th[t].res.tag = "Ok"
        /\ th[u].pc = "lc_read"
        /\ Slot(c).map = EmptyMap /\ Slot(d).map # EmptyMap

\* ---- C14 ----
\* a slot of the list is gone after the step
SlotRemoved == \E i \in SlotIds : i + 1 \notin DOMAIN containers'

\* create_container returns the id of the slot it has pushed
CreateReturnsSlot ==
    \A t \in Threads :
        (th[t].pc = "cc_push" /\ th'[t].pc # "cc_push") =>
            /\ Returns(t, "create_container") /\ th'[t].res.tag = "Ok"
            /\ th'[t].res.id = Len(containers)
            /\ th'[t].res.id + 1 \in DOMAIN containers'
            /\ \A d \in SlotIds : containers'[d + 1] = Slot(d)

\* C14 as claimed: once create_container has returned id i, slot i remains in
\* the list in every later state, after any sequence of interface
\* operations: a slot is only cleared, never removed, and the number of slots
\* never decreases.
C14_Claim ==
    [][ CreateReturnsSlot /\ ~SlotRemoved /\ Len(containers') >= Len(containers) ]_vars

\* C14 as amended: once create_container has returned id i, slot i remains in
\* the list until a delete_db(0); delete_container only clears the slot.
\* The number of slots decreases only in delete_db(0), which removes every
\* slot.
C14_SlotsUntilDeleteDb ==
    [][ /\ CreateReturnsSlot
        /\ (SlotRemoved \/ Len(containers') < Len(containers)) =>
              /\ \E t \in Threads : th[t].pc = "ddb_clear" /\ Returns(t, "delete_db")
              /\ containers' = << >>
      ]_vars

\* a delete_container has returned Ok and every slot is still in the list
C14_Witness ==
    /\ \E t \in Threads : th[t].res.of = "delete_container" /\ th[t].res.tag = "Ok"
    /\ Len(containers) = NumContainers

\* ---- C15 ----
\* thread t takes the step of open_db
OpensDb(t) == th'[t] # th[t] /\ th'[t].res.of = "open_db"

\* C15: at most one database exists.  open_db returns DBExists and changes
\* nothing when a database is open, and otherwise marks the database open
\* and returns id 0; the open flag is reset only by a successful delete_db,
\* so between two successful open_db calls there is a successful delete_db.
C15_OneDatabase ==
    [][ /\ \A t \in Threads : OpensDb(t) =>
              /\ th'[t].pc = "idle"
              /\ UNCHANGED <<containers, lockW, lockR, listW, listR, iters>>
              /\ IF db_created
                   THEN th'[t].res.tag = "DBExists" /\ db_created'
                   ELSE th'[t].res.tag = "Ok" /\ th'[t].res.id = 0 /\ db_created'
        /\ (db_created /\ ~db_created') =>
              \E t \in Threads :
                  th[t].pc = "ddb_clear" /\ Returns(t, "delete_db") /\ th'[t].res.tag = "Ok"
        /\ (~db_created /\ db_created') => \E t \in Threads : OpensDb(t)
      ]_vars

\* an open_db has returned DBExists: the database is open, with a container
C15_Witness ==
    /\ db_created /\ Len(containers) > 0
    /\ th[Main].res.of = "open_db" /\ th[Main].res.tag = "DBExists"

\* ---- C16 ----
\* C16 as claimed: delete_db(id) returns DBNotFound and leaves the open flag
\* and the containers unchanged whenever id is not the id of an open
\* database (a non-zero id, or any id while no database is open); it returns
\* Ok only when id identifies the open database.
C16_Claim ==
    [][ \A t \in Threads :
          /\ (th[t].pc = "ddb_clear" /\ Returns(t, "delete_db")) =>
                (db_created /\ th[t].op.db = 0)
          /\ (th'[t] # th[t] /\ th'[t].res.of = "delete_db"
                /\ th'[t].res.tag = "DBNotFound") =>
                UNCHANGED <<db_created, containers>>
      ]_vars

\* ---- C17 ----
\* C17 as claimed: create_container validates dbId.  When dbId does not
\* identify an open database (a non-zero id, or id 0 before open_db or after
\* delete_db) it returns DBNotFound and the list is unchanged; a container
\* is appended only for an open database.
C17_Claim ==
    [][ /\ \A t \in Threads :
              /\ (th[t].pc = "cc_push" /\ Returns(t, "create_container")) =>
                    (db_created /\ th[t].op.db = 0)
              /\ (th'[t] # th[t] /\ th'[t].res.of = "create_container"
                    /\ th'[t].res.tag = "DBNotFound") => UNCHANGED containers
        /\ Len(containers') > Len(containers) => db_created
      ]_vars

\* ---- C18 ----
\* thread t is changing the list or a slot through the list
ChangesList(t) == th[t].pc \in {"cc_push", "cl_lock", "cl_clear"}

\* thread t is emptying the list in delete_db
EmptiesList(t) == th[t].pc = "ddb_clear"

\* thread t is reading the length of the list
ReadsList(t) == th[t].pc = "lc_read"

\* create_container and delete_container hold the write lock, alone, and
\* list_containers holds the read lock
C18_ListLocks ==
    /\ \A t \in Threads : ChangesList(t) => (listW = {t} /\ listR = 0)
    /\ \A t \in Threads : ReadsList(t) => (listW = {} /\ listR > 0)
    /\ listR = Cardinality({t \in Threads : ReadsList(t)})

\* C18 as claimed: a thread that is adding to, clearing through, or emptying
\* the container list (create_container, delete_container, delete_db) holds
\* the list's write lock, and a thread reading its length in list_containers
\* holds the read lock.
C18_Claim ==
    /\ C18_ListLocks
    /\ \A t \in Threads : EmptiesList(t) => listW = {t}

\* C18 as amended: a thread that is adding to or clearing through the
\* container list (create_container, delete_container) holds the list's
\* write lock, and a thread reading its length in list_containers holds the
\* read lock; delete_db empties the list holding no lock.
C18_ListLockDiscipline ==
    /\ C18_ListLocks
    /\ \A t \in Threads : EmptiesList(t) => t \notin listW

\* a create_container is about to push under the write lock while the other
\* thread waits for the list lock
C18_Witness ==
    \E t \in Threads : \E u \in Threads \ {t} :
        /\ th[t].pc = "cc_push" /\ listW = {t}
        /\ th[u].pc \in {"cc_lock", "dc_lock", "lc_lock"}

\* ---- C19 ----
\* C19: a full scan (scan_range, then iter_next until None) of a BTree
\* container yields its keys in strictly ascending byte-lexicographic order,
\* and a full scan of a Hash container yields exactly the set of the present
\* keys, each exactly once; every yielded value is the value stored for its
\* key.
C19_FullScan ==
    \A i \in Threads :
        Alive(i) =>
            LET out == Iter(i).out
                st == Slot(Iter(i).c)
            IN /\ \A a \in 1..Len(out) : \A b \in 1..Len(out) :
                     a < b => out[a][1] # out[b][1]
               /\ st.ctype = "BTree" =>
                     \A a \in 1..Len(out) : \A b \in 1..Len(out) :
                         a < b => LexLess(out[a][1], out[b][1])
               /\ \A a \in 1..Len(out) :
                     out[a][1] \in DOMAIN st.map /\ out[a][2] = st.map[out[a][1]]
               /\ Iter(i).done => {out[a][1] : a \in 1..Len(out)} = DOMAIN st.map

\* a scan of a BTree container that holds two keys has returned None
C19_Witness ==
    \E i \in Threads :
        /\ Alive(i) /\ Iter(i).done /\ Len(Iter(i).out) = 2
        /\ Slot(Iter(i).c).ctype = "BTree"

\* ---- C20 ----
\* C20: insert_values processes the pairs in order and stops at the first
\* pair whose key is already present, returning KeyExists: the pairs before
\* it stay inserted, that pair and the pairs after it are not inserted, and
\* nothing is rolled back; when no key is present it inserts all pairs and
\* returns Ok.  At the step of each pair: a present key ends the call with
\* KeyExists and no change; an absent key is inserted, and the call goes on
\* to the next pair, or returns Ok after the last one.
C20_InsertValues ==
    [][ \A t \in Threads :
          /\ (th[t].pc = "idle" /\ th'[t].pc = "w_lock"
                /\ th'[t].op.kind = "insert_values") => th'[t].pos = 1
          /\ (th[t].pc = "w_lock" /\ th'[t].pc = "w_apply") =>
                (th'[t].pos = th[t].pos /\ th'[t].op = th[t].op /\ UNCHANGED containers)
          /\ (th[t].pc = "w_apply" /\ th'[t].pc # "w_apply"
                /\ th[t].op.kind = "insert_values") =>
                LET c == th[t].op.c
                    p == th[t].op.kvs[th[t].pos]
                    m == Slot(c).map
                IN IF p[1] \in DOMAIN m
                     THEN /\ UNCHANGED containers
                          /\ Returns(t, "insert_values") /\ th'[t].res.tag = "KeyExists"
                     ELSE /\ containers' = SetMap(c, [x \in (DOMAIN m) \cup {p[1]} |->
                                                        IF x = p[1] THEN p[2] ELSE m[x]])
                          /\ IF th[t].pos < Len(th[t].op.kvs)
                               THEN /\ th'[t].pc = "w_lock" /\ th'[t].op = th[t].op
                                    /\ th'[t].pos = th[t].pos + 1
                               ELSE Returns(t, "insert_values") /\ th'[t].res.tag = "Ok"
      ]_vars

\* insert_values has inserted its first pair and finds the key of its
\* second pair, another key, present
C20_Witness ==
    \E t \in Workers :
        /\ th[t].pc = "w_apply" /\ th[t].op.kind = "insert_values"
        /\ th[t].pos = 2 /\ th[t].found
        /\ th[t].op.kvs[1][1] # th[t].op.kvs[2][1]
        /\ th[t].op.kvs[1][1] \in DOMAIN Slot(th[t].op.c).map

\* ---- C21 ----
TxnKinds == {"begin_txn", "commit_txn", "abort_txn", "wait_for_txn", "drop_txn", "close_db"}

\* thread t takes the step of a transaction or connection operation
TxnOp(t) == th'[t] # th[t] /\ th'[t].res.of \in TxnKinds

\* C21: begin_txn, commit_txn, abort_txn, wait_for_txn, drop_txn and close_db
\* always return success, for any database id or handle and in any engine
\* state, and leave the open flag, the container list and the contents of
\* every container unchanged.
C21_NoOps ==
    [][ \A t \in Threads : TxnOp(t) =>
          /\ th[t].pc = "idle" /\ th'[t].pc = "idle"
          /\ th'[t].res.tag = "Ok"
          /\ UNCHANGED <<db_created, containers, lockW, lockR, listW, listR, iters>>
      ]_vars

\* a commit_txn has returned while a container holds a key and another
\* thread is inside a write section
C21_Witness ==
    \E t \in Threads : \E u \in Threads \ {t} : \E c \in SlotIds :
        /\ th[t].res.of = "commit_txn" /\ th[t].res.tag = "Ok"
        /\ Slot(c).map # EmptyMap
        /\ th[u].pc = "w_apply"

\* ---- C22 ----
\* the step changes what container c stores for key k, or whether it stores it
Differs(c, k) ==
    LET m == Slot(c).map
        n == containers'[c + 1].map
    IN \/ (k \in DOMAIN m) # (k \in DOMAIN n)
       \/ k \in DOMAIN m /\ k \in DOMAIN n /\ m[k] # n[k]

\* C22: mutations are immediately and irrevocably visible.  When a
\* successful insert_value, update_value or delete_value returns, its effect
\* is in the container; a get_value returns what the container stores at
\* the step it reads, whatever transaction is open; and what is stored for a
\* key changes only in a later mutation of that key, never in commit_txn,
\* abort_txn or drop_txn.
C22_Visible ==
    [][ /\ \A t \in Threads :
              ( /\ th[t].pc = "w_apply" /\ th[t].op.kind \in PointMutations
                /\ Returns(t, th[t].op.kind) /\ th'[t].res.tag = "Ok" ) =>
                  LET n == containers'[th[t].op.c + 1].map IN
                  IF th[t].op.kind = "delete_value"
                    THEN th[t].op.k \notin DOMAIN n
                    ELSE th[t].op.k \in DOMAIN n /\ n[th[t].op.k] = th[t].op.v
        /\ GetReturnsStored
        /\ \A c \in SlotIds : \A k \in Keys :
              Differs(c, k) =>
                  \E t \in Threads :
                      /\ th[t].pc = "w_apply" /\ th[t].op.kind \in PointMutations
                      /\ th[t].op.c = c /\ th[t].op.k = k
                      /\ Returns(t, th[t].op.kind) /\ th'[t].res.tag = "Ok"
        /\ \A t \in Threads : TxnOp(t) => UNCHANGED containers
      ]_vars

\* a thread has aborted its transaction after its insert, and a get_value
\* of another thread has returned the inserted value, which is still stored
C22_Witness ==
    \E t \in Workers : \E u \in Workers \ {t} : \E c \in SlotIds : \E k \in Keys :
        /\ th[t].res.of = "abort_txn"
        /\ th[u].res.of = "get_value" /\ th[u].res.tag = "Ok"
        /\ k \in DOMAIN Slot(c).map /\ Slot(c).map[k] = th[u].res.val
        /\ left.ops = 0

\* ---- C23 ----
\* thread t takes a step of a point operation or of scan_range
PointStep(t) ==
    /\ th[t].pc \in {"w_lock", "w_apply", "r_lock", "r_get", "s_lock"}
    /\ th'[t] # th[t]

\* a point operation or scan that waits for the lock of A can go on unless a
\* thread holds that very lock: a writer waits for the holders of A, a
\* reader for a writer inside A
C23_OnlyOwnLock ==
    \A t \in Threads : \A a \in SlotIds :
        /\ (th[t].pc = "w_lock" /\ th[t].op.c = a /\ \A u \in Threads : ~Holds(u, a))
              => ENABLED write_lock(t)
        /\ (th[t].pc = "r_lock" /\ th[t].op.c = a /\ \A u \in Threads : ~InWrite(u, a))
              => ENABLED read_lock(t)
        /\ (th[t].pc = "s_lock" /\ th[t].op.c = a /\ \A u \in Threads : ~InWrite(u, a))
              => ENABLED scan_lock(t)

\* C23: operations on distinct containers never contend.  A point operation
\* or scan on container A is never blocked by a writer, a reader or a live
\* iterator on a different container B, nor by a create_container,
\* delete_container(B) or list_containers in progress, and it leaves B's
\* contents and B's lock unchanged.
C23_NoContention ==
    /\ [](C23_OnlyOwnLock)
    /\ [][ \A t \in Threads : PointStep(t) =>
              /\ Len(containers') = Len(containers)
              /\ UNCHANGED <<listW, listR>>
              /\ \A b \in SlotIds \ {th[t].op.c} :
                    /\ containers'[b + 1] = Slot(b)
                    /\ lockW'[b + 1] = lockW[b + 1]
                    /\ lockR'[b + 1] = lockR[b + 1]
          ]_vars

\* a worker is inside its write section on A while another worker holds an
\* iterator on B and the main thread holds the list lock in create_container
C23_Witness ==
    \E t \in Workers : \E u \in Workers \ {t} :
        /\ th[t].pc = "w_apply"
        /\ Alive(u) /\ Iter(u).c # th[t].op.c
        /\ th[Main].pc = "cc_push"

\* ---- C24 ----
\* thread t indexes the container list with an id that has no slot: in the
\* first step of a point operation or of scan_range, and under the list lock
\* in delete_container
BadIndex(t) ==
    \/ /\ th[t].pc = "idle" /\ th'[t].pc # "idle"
       /\ th'[t].op.kind \in WriteKinds \cup ReadKinds \cup {"scan_range"}
       /\ ~ValidId(th'[t].op.c)
    \/ /\ th[t].pc = "dc_lock" /\ th'[t].pc # "dc_lock"
       /\ ~ValidId(th[t].op.c)

\* C24: using a container id that has no slot in check_value, get_value,
\* insert_value, insert_values, update_value, delete_value, scan_range or
\* delete_container ends in a panic, never in a returned Status and never in
\* a read or write of a container's data.
C24_Claim ==
    [][ \A t \in Threads : BadIndex(t) =>
            /\ th'[t].pc = "panicked"
            /\ containers' = containers ]_vars

\* ---- C26 ----
\* C26: database lifecycle round trip.  delete_db with id 0 returns Ok,
\* empties the container list and resets the open flag; open_db in a state
\* with the flag reset succeeds with id 0 and leaves the list alone; and
\* list_containers on the emptied list returns the empty set.
C26_RoundTrip ==
    [][ \A t \in Threads :
            /\ (th[t].pc = "ddb_clear" /\ th'[t] # th[t]) =>
                  /\ Returns(t, "delete_db") /\ th'[t].res.tag = "Ok"
                  /\ containers' = << >>
                  /\ ~db_created'
            /\ (OpensDb(t) /\ ~db_created) =>
                  /\ th'[t].res.tag = "Ok" /\ th'[t].res.id = 0
                  /\ db_created'
                  /\ containers' = containers
            /\ (th[t].pc = "lc_read" /\ th'[t] # th[t] /\ containers = << >>) =>
                  /\ Returns(t, "list_containers") /\ th'[t].res.tag = "Ok"
                  /\ th'[t].res.ids = {}
      ]_vars

\* a container was created, the list is empty again, and the last call of
\* the main thread is an open_db that succeeded
C26_Witness ==
    /\ th[1].res.of = "create_container" /\ th[1].res.tag = "Ok"
    /\ containers = << >>
    /\ db_created
    /\ th[Main].res.of = "open_db" /\ th[Main].res.tag = "Ok" /\ th[Main].res.id = 0

\* ---- C27 ----
\* thread t takes a step of check_value
ChecksValue(t) == th'[t] # th[t] /\ "check_value" \in {th[t].op.kind, th'[t].op.kind, th'[t].res.of}

\* C27: check_value on a created container never returns an error: it
\* returns Ok(true) exactly when the key is in the container at the step that
\* reads it, where get_value returns the value, and Ok(false) exactly when
\* the key is absent, where get_value returns KeyNotFound; no step of the
\* call changes the database flag, a container, or the list.
C27_CheckValue ==
    [][ \A t \in Threads : ChecksValue(t) =>
            /\ UNCHANGED <<db_created, containers, lockW, listW, listR, iters>>
            /\ (th[t].pc = "r_get") =>
                  LET c == th[t].op.c
                      k == th[t].op.k
                  IN /\ Returns(t, "check_value")
                     /\ th'[t].res.tag \in {"true", "false"}
                     /\ th'[t].res.tag = "true" <=> k \in DOMAIN Slot(c).map
                     /\ th'[t].res.tag = "true" <=> StorageGet(Slot(c).map, k).tag = "Ok"
                     /\ th'[t].res.tag = "false" <=> StorageGet(Slot(c).map, k).tag = "KeyNotFound"
                     /\ lockR'[c + 1] = lockR[c + 1] - 1
      ]_vars

\* a check_value has found its key
C27_Witness ==
    \E t \in Workers : th[t].res.of = "check_value" /\ th[t].res.tag = "true"

\* ---- C29 ----
\* thread t is inside insert_value, update_value, delete_value or
\* delete_container on the container of its own live iterator, before the
\* write section
SelfBlocked(t) ==
    /\ th[t].pc \in {"w_lock", "dc_lock", "cl_lock"}
    /\ HoldsIter(t, th[t].op.c)

\* C29: a thread that holds a live iterator on a container and calls
\* insert_value, update_value, delete_value or delete_container on that
\* container never returns from the call: it never gets the write lock, which
\* waits for the read lock the thread itself holds, and the iterator stays.
C29_SelfDeadlock ==
    [][ \A t \in Threads : SelfBlocked(t) =>
            /\ SelfBlocked(t)'
            /\ th'[t].op = th[t].op
            /\ th'[t].res = th[t].res
            /\ ~ENABLED write_lock(t)
            /\ ~ENABLED clear_lock(t)
      ]_vars

\* a worker waits for the write lock of the container it scans, and its own
\* iterator is the only holder of that lock
C29_Witness ==
    \E t \in Workers :
        /\ th[t].pc = "w_lock"
        /\ HoldsIter(t, th[t].op.c)
        /\ lockW[th[t].op.c + 1] = {}
        /\ lockR[th[t].op.c + 1] = 1

\* ---- C30 ----
\* the threads inside iter.next() of the iterator of thread i
InNext(i) == {t \in Threads : th[t].pc = "n_next" /\ th[t].op.it = i}

\* the pairs in a sequence of pairs
Range(ps) == {ps[n] : n \in DOMAIN ps}

\* at most one thread is inside iter.next() of an iterator, the one that
\* holds the cursor's mutex
C30_OneInNext ==
    \A i \in Threads : Alive(i) =>
        /\ Cardinality(InNext(i)) <= 1
        /\ InNext(i) = Iter(i).mtx

C25_Claim ==
    [][ \A t \in Threads :
            (th'[t] # th[t] /\ th'[t].res.of = "list_containers") =>
                \/ th'[t].res.tag = "DBNotFound"
                \/ /\ th'[t].res.tag = "Ok"
                   /\ th'[t].res.ids = 0..(vec_len - 1) ]_vars

\* ---- C28 ----
\* C28: every id returned by create_container is the slot index of the
\* container just appended, hence different from every id returned before,
\* for any number of containers, also beyond the 16-bit range of ContainerId.
C28_Claim ==
    [][ \A t \in Threads :
            (th'[t] # th[t] /\ th'[t].res.of = "create_container" /\ th'[t].res.tag = "Ok") =>
                /\ vec_len' = vec_len + 1
                /\ th'[t].res.id = vec_len' - 1 ]_vars

\* ---- C31 ----
\* thread t waits for the list lock in create_container, delete_container or
\* list_containers
WaitsForList(t) == th[t].pc \in {"cc_lock", "dc_lock", "lc_lock"}

\* thread t is in delete_container, waiting for the write lock of the
\* container it clears
WaitsToClear(t) == th[t].pc = "cl_lock"

\* while delete_container waits for the container's write lock it holds the
\* list's write lock, and no call can take the list lock
C31_ListHeld ==
    \A t \in Threads : WaitsToClear(t) =>
        /\ listW = {t} /\ listR = 0
        /\ \A u \in Threads :
              /\ ~ENABLED create_container_lock(u)
              /\ ~ENABLED delete_container_lock(u)
              /\ ~ENABLED list_containers_lock(u)

\* C31: delete_container(c) takes c's write lock while it holds the list's
\* write lock.  While it waits for a live iterator or a reader on c, every
\* create_container, delete_container and list_containers call stays blocked
\* at the list lock; and when the owner of a live iterator on c is one of the
\* blocked callers, neither call ever goes on: the iterator stays and both
\* threads stay where they are.
C31_DeleteHoldsList ==
    /\ [](C31_ListHeld)
    /\ [][ \A t \in Threads : WaitsToClear(t) =>
              /\ \A u \in Threads : WaitsForList(u) => th'[u] = th[u]
              /\ \A u \in Threads \ {t} :
                    (WaitsForList(u) /\ HoldsIter(u, th[t].op.c)) =>
                        /\ th'[t] = th[t]
                        /\ th'[u] = th[u]
                        /\ iters'[u] = iters[u]
                        /\ UNCHANGED <<listW, listR>>
        ]_vars

\* a worker waits to clear a container under the list lock, and the owner of
\* the iterator it waits for waits for the list lock in list_containers
C31_Witness ==
    \E t \in Workers : \E u \in Workers \ {t} :
        /\ WaitsToClear(t)
        /\ HoldsIter(u, th[t].op.c)
        /\ th[u].pc = "lc_lock"

\* ---- C32 ----
\* thread t's update_value(c, k, val) finds container c, the value carries the
\* key k, and k is not in the container
UpdatesAbsent(t, c, k, val) ==
    /\ mx_update_value(t, c, k, val)
    /\ ~inner.poisoned
    /\ MxFind(c) = Ok
    /\ KeyOf(val) = k
    /\ k \notin DOMAIN inner.dbs[0][c].map

\* C32: in the engine behind one Mutex, update_value on a key that is not in
\* a Hash or BTree container returns KeyNotFound and leaves the container's
\* map as it was.
C32_Claim ==
    [][ \A t \in Threads, c \in Ids, k \in Keys, val \in MxVals :
            UpdatesAbsent(t, c, k, val) =>
                /\ th'[t].res.tag = "KeyNotFound"
                /\ inner'.dbs[0][c].map = inner.dbs[0][c].map ]_vars

\* ---- C33 ----
\* thread t's create_container(db, ty) finds the database db
CreatesIn(t, db, ty) ==
    /\ mx_create_container(t, db, ty)
    /\ ~inner.poisoned
    /\ db \in DOMAIN inner.dbs

\* C33: in the engine behind one Mutex, after any create_container and
\* delete_container calls, create_container returns an id that no container
\* of the database has, and every container of the database keeps its id and
\* its contents.
C33_Claim ==
    [][ \A t \in Threads, db \in DbIds, ty \in CTypes :
            CreatesIn(t, db, ty) =>
                /\ th'[t].res.tag = "Ok"
                /\ th'[t].res.id \notin DOMAIN inner.dbs[db]
                /\ \A c \in DOMAIN inner.dbs[db] :
                      /\ c \in DOMAIN inner'.dbs[db]
                      /\ inner'.dbs[db][c] = inner.dbs[db][c] ]_vars

====
